---- MODULE Spec2Model ----
(***************************************************************************)
(* Model of rxpy_opkit: the class-based operator base                      *)
(* (basis/flat_operator_abc_basis.py) and the six logging operators        *)
(* (logging_ops/logging_operators.py).                                     *)
(*                                                                         *)
(* One operator instance is constructed (Init), then subscribed; the       *)
(* upstream it subscribed to calls its on_next / on_error / on_completed   *)
(* handlers.  Every handler is one action.  The variable trace records, in *)
(* program order, what the instance received, what it logged, what it      *)
(* delivered to its forwarding target and which exceptions left a handler. *)
(*                                                                         *)
(* Spec         the six logging operators, one instance, subscriptions one *)
(*              after the other.                                           *)
(* SpecBasis    SimpleOperator / FilteringOperator with the inherited      *)
(*              BaseOperator handlers; the upstream may call the handlers  *)
(*              while BaseOperator.subscribe is still inside               *)
(*              source.subscribe, and the consumer may dispose the handle. *)
(* SpecPipeline source -> LoggingOperator -> SimpleOperator(x * 2) ->      *)
(*              FilteringOperator(x > 5) -> consumer, one subscription.    *)
(* SpecFormat   LoggingOperator's default formatter on long texts, lists,  *)
(*              tuples and dicts.                                          *)
(* SpecOverlap  two subscriptions through one instance that overlap.       *)
(* SpecFactory  the operators a factory of create_operator constructs.     *)
(* SpecUnattached  handlers called before the operator was subscribed.     *)
(* SpecRaising  SimpleOperator / FilteringOperator and a consumer whose    *)
(*              on_next raises.                                            *)
(* SpecDebug    the closure-based debug operator (operators/debug_...).    *)
(***************************************************************************)
EXTENDS Integers, Sequences, FiniteSets, TLC

\* ------------------------------------------------------------------ bounds
MaxEvents == 3      \* notifications the upstreams deliver in one run
MaxSubs   == 2      \* subscriptions made through the one operator instance
MaxWidth  == 2      \* largest MarbleLogger width tried
MaxClock  == 3      \* largest reading of time.time()
MaxPipeEvents == 5  \* notifications the upstream of the pipeline delivers

\* ------------------------------------------------------- the stream's values
\* A Python value: kind is its type; n is the number (an int as itself, a float
\* in tenths); s is the text of a str, one character per element.
VInt(i)   == [kind |-> "int",   n |-> i, s |-> <<>>]
VFloat(t) == [kind |-> "float", n |-> t, s |-> <<>>]
VStr(cs)  == [kind |-> "str",   n |-> 0, s |-> cs]
VNone     == [kind |-> "NoneType", n |-> 0, s |-> <<>>]

Values == { VInt(7), VInt(-3), VFloat(-5), VStr(<<"a", "b">>), VNone }

\* The values an upstream delivers to an operator of class k: every shape the
\* class tells apart (MarbleLogger: the five symbol cases; the others: a
\* number and a value that is no number, and the sign where it is read).
ValuesOf(k) ==
    CASE k = "MarbleLogger" -> Values
      [] k \in {"ConditionalLogger", "RichLoggerOperator"} ->
            { VInt(7), VInt(-3), VStr(<<"a", "b">>) }
      [] k = "SimpleOperator" -> { VInt(7), VStr(<<"a", "b">>), VNone }
      [] k = "FilteringOperator" -> { VInt(7), VInt(-3), VStr(<<"a", "b">>) }
      [] OTHER -> { VInt(7), VStr(<<"a", "b">>) }

\* The exceptions an upstream may deliver (type name of the exception).
Errors == { "ValueError" }

IsNumber(v) == v.kind \in {"int", "float"}

\* int(x) of a float given in tenths: truncation toward zero.
TruncTenths(t) == IF t >= 0 THEN t \div 10 ELSE -((-t) \div 10)

\* int(value) for a number.
PyInt(v) == IF v.kind = "int" THEN v.n ELSE TruncTenths(v.n)

\* -9 <= value <= 9 for a number.
InMarbleRange(v) == IF v.kind = "int" THEN -9 <= v.n /\ v.n <= 9
                                       ELSE -90 <= v.n /\ v.n <= 90

Digit(d) == CASE d = 0 -> "0" [] d = 1 -> "1" [] d = 2 -> "2" [] d = 3 -> "3"
              [] d = 4 -> "4" [] d = 5 -> "5" [] d = 6 -> "6" [] d = 7 -> "7"
              [] d = 8 -> "8" [] d = 9 -> "9"

RECURSIVE NatStr(_)
NatStr(k) == IF k < 10 THEN <<Digit(k)>> ELSE NatStr(k \div 10) \o <<Digit(k % 10)>>

\* str(i) of an int: the characters, '-' first when negative.
IntStr(i) == IF i < 0 THEN <<"-">> \o NatStr(-i) ELSE NatStr(i)

\* str(x) of a float given in tenths.
FloatStr(t) == (IF t < 0 THEN <<"-">> ELSE <<>>)
               \o NatStr((IF t < 0 THEN -t ELSE t) \div 10)
               \o <<".">> \o <<Digit((IF t < 0 THEN -t ELSE t) % 10)>>

\* A list, a tuple or a dict: items holds the entries in order, values for a
\* list or tuple, [key, val] pairs for a dict.
VList(xs)  == [kind |-> "list",  n |-> 0, s |-> <<>>, items |-> xs]
VTuple(xs) == [kind |-> "tuple", n |-> 0, s |-> <<>>, items |-> xs]
VDict(es)  == [kind |-> "dict",  n |-> 0, s |-> <<>>, items |-> es]

IsContainer(v) == v.kind \in {"list", "tuple", "dict"}

\* str(value); repr(value), which str uses for the entries of a container
RECURSIVE PyStr(_), Repr(_), JoinRepr(_), JoinItems(_)
Repr(v) == IF v.kind = "str" THEN <<"'">> \o v.s \o <<"'">> ELSE PyStr(v)

JoinRepr(xs) ==
    IF xs = <<>> THEN <<>>
    ELSE Repr(Head(xs))
         \o (IF Len(xs) > 1 THEN <<",", " ">> \o JoinRepr(Tail(xs)) ELSE <<>>)

JoinItems(es) ==
    IF es = <<>> THEN <<>>
    ELSE Repr(Head(es).key) \o <<":", " ">> \o Repr(Head(es).val)
         \o (IF Len(es) > 1 THEN <<",", " ">> \o JoinItems(Tail(es)) ELSE <<>>)

PyStr(v) == CASE v.kind = "int"   -> IntStr(v.n)
              [] v.kind = "float" -> FloatStr(v.n)
              [] v.kind = "str"   -> v.s
              [] v.kind = "list"  -> <<"[">> \o JoinRepr(v.items) \o <<"]">>
              [] v.kind = "tuple" ->
                    <<"(">> \o JoinRepr(v.items)
                    \o (IF Len(v.items) = 1 THEN <<",">> ELSE <<>>) \o <<")">>
              [] v.kind = "dict"  -> <<"{">> \o JoinItems(v.items) \o <<"}">>
              [] OTHER            -> <<"N", "o", "n", "e">>

\* c.upper() for the characters the model's texts use.
Upper(c) == CASE c = "a" -> "A" [] c = "b" -> "B" [] OTHER -> c

\* ---------------------------------------------------------------- variables
VARIABLES
    kind,          \* the class of the operator instance
    cfg,           \* its configuration, set by __init__
    observer,      \* BaseOperator.observer: the forwarding target, None until subscribe
    count,         \* LoggingOperator / RichLoggerOperator / PerformanceLogger .count
    event_count,   \* ContextualLogger.event_count
    total_count,   \* ConditionalLogger.total_count
    logged_count,  \* ConditionalLogger.logged_count
    timeline,      \* MarbleLogger.timeline
    start_time,    \* PerformanceLogger / ContextualLogger .start_time
    last_time,     \* PerformanceLogger.last_time
    item_times,    \* PerformanceLogger.item_times
    clock,         \* the reading of time.time()
    up,            \* per subscription: the state of the upstream's subscription
    stages,        \* the operators chained between the instance and the consumer
    handle,        \* per subscription: what BaseOperator.subscribe returned
    made,          \* what the factories of create_operator constructed
    trace          \* what happened, in program order

config == <<kind, cfg>>
wiring == <<stages, handle, made>>
fields == <<count, event_count, total_count, logged_count, timeline,
            start_time, last_time, item_times>>
vars   == <<kind, cfg, observer, count, event_count, total_count, logged_count,
            timeline, start_time, last_time, item_times, clock, up, stages,
            handle, made, trace>>

\* Python's None, for the optional fields (observer, start_time, last_time,
\* log_interval).
None == -1

\* create_operator's factories have not been applied
NothingMade == [operators |-> <<>>, observables |-> <<>>]

\* ------------------------------------------------------------ configuration
Kinds == { "LoggingOperator", "MarbleLogger", "ContextualLogger",
           "RichLoggerOperator", "PerformanceLogger", "ConditionalLogger" }

\* The keyword defaults of the six constructors.
DefaultCfg == [ log_values      |-> TRUE,
                log_errors      |-> TRUE,
                log_completion  |-> TRUE,
                log_level       |-> "info",
                value_formatter |-> "default",
                width           |-> 1,
                log_interval    |-> None,
                value_predicate |-> "None",
                error_predicate |-> "None",
                summarize       |-> TRUE,
                transform_func  |-> "double",
                predicate       |-> "gt5" ]

\* The configurations tried for each class.  A custom value_formatter is
\* lambda v: f"{v:.1f}", which raises on a value that is no number; the value
\* predicate "positive" is lambda v: v > 0, which raises on a value that cannot
\* be compared with 0; the error predicates answer True ("always"), False
\* ("never") or raise ("raising").
ConfigsOf(k) ==
    CASE k = "LoggingOperator" ->
            { [DefaultCfg EXCEPT !.log_values = lv, !.log_errors = le,
                                 !.log_completion = lc, !.value_formatter = f] :
                lv \in BOOLEAN, le \in BOOLEAN, lc \in BOOLEAN,
                f \in {"default", "custom"} }
      [] k = "MarbleLogger" ->
            { [DefaultCfg EXCEPT !.width = w] : w \in 1..MaxWidth }
      [] k = "PerformanceLogger" ->
            { [DefaultCfg EXCEPT !.log_interval = i] : i \in {None, 0, 1, 2} }
      [] k = "ConditionalLogger" ->
            { [DefaultCfg EXCEPT !.value_predicate = vp, !.error_predicate = ep,
                                 !.summarize = sm] :
                vp \in {"None", "positive"},
                ep \in {"None", "always", "never", "raising"},
                sm \in BOOLEAN }
      [] OTHER -> { DefaultCfg }

\* value_formatter(value) raises
FormatterRaises(f, v) == f = "custom" /\ ~IsNumber(v)

\* value_predicate(value) raises
ValuePredicateRaises(p, v) == p = "positive" /\ ~IsNumber(v)

\* value_predicate(value), when it returns
ValuePredicate(p, v) == v.n > 0

\* error_predicate(error) raises
ErrorPredicateRaises(p, e) == p = "raising"

\* error_predicate(error), when it returns
ErrorPredicate(p, e) == p = "always"

\* f"{v:.1f}" of a number
CustomFormat(v) == IF v.kind = "int" THEN IntStr(v.n) \o <<".", "0">>
                                     ELSE FloatStr(v.n)

\* -------------------------------------------------------------------- trace
NoValue == [kind |-> "", n |-> 0, s |-> <<>>]

\* the upstream of subscription s called a handler of the operator; sync: it
\* did so from inside source.subscribe, before BaseOperator.subscribe returned
Recv(s, note, v, e) ==
    [ev |-> "recv", sub |-> s, note |-> note, val |-> v, err |-> e,
     sync |-> (handle[s] = None)]

\* the operator called the matching handler of consumer c
Deliver(c, note, v, e) ==
    [ev |-> "deliver", sub |-> c, note |-> note, val |-> v, err |-> e]

\* a record handed to the logger
Log(level, what, n, m, text, suffix) ==
    [ev |-> "log", level |-> level, what |-> what, n |-> n, m |-> m,
     text |-> text, suffix |-> suffix]

\* an exception left the handler
Raise(exc) == [ev |-> "raise", exc |-> exc]

\* the consumer at the end of the chain of subscription c was called
Final(c, m) ==
    [ev |-> "final", sub |-> c, note |-> m.note, val |-> m.val, err |-> m.err]

\* the consumer of subscription s disposed the handle it was given
Disposed(s) == [ev |-> "dispose", sub |-> s]

\* ------------------------------------- SimpleOperator / FilteringOperator
\* The transform function is lambda x: x * 2 ("double"; None * 2 raises), the
\* predicate lambda x: x > 5 ("gt5"; it raises on a value that is no number).
TransformRaises(f, v) == v.kind = "NoneType"

Transform(f, v) ==
    CASE v.kind = "str" -> VStr(v.s \o v.s)
      [] OTHER          -> [v EXCEPT !.n = 2 * v.n]

PredicateRaises(p, v) == ~IsNumber(v)

Predicate(p, v) == IF v.kind = "float" THEN v.n > 50 ELSE v.n > 5

Msg(note, v, e) == [note |-> note, val |-> v, err |-> e]

\* (mutant) SimpleOperator.on_next that forwards the value it was given
SimpleOperator_sends_untransformed(obs, f, v) ==
    IF TransformRaises(f, v)
    THEN IF obs # None THEN <<Msg("error", NoValue, "TypeError")>> ELSE <<>>
    ELSE IF obs # None THEN <<Msg("next", v, "")>> ELSE <<>>

\* SimpleOperator.on_next: what it sends to its observer obs
SimpleOperator_sends(obs, f, v) ==
    IF TransformRaises(f, v)
    THEN IF obs # None THEN <<Msg("error", NoValue, "TypeError")>> ELSE <<>>
    ELSE IF obs # None THEN <<Msg("next", Transform(f, v), "")>> ELSE <<>>

\* (mutant) FilteringOperator.on_next that forwards whatever the predicate says
FilteringOperator_sends_all(obs, p, v) ==
    IF PredicateRaises(p, v)
    THEN IF obs # None THEN <<Msg("error", NoValue, "TypeError")>> ELSE <<>>
    ELSE IF obs # None THEN <<Msg("next", v, "")>> ELSE <<>>

\* FilteringOperator.on_next: what it sends to its observer obs
FilteringOperator_sends(obs, p, v) ==
    IF PredicateRaises(p, v)
    THEN IF obs # None THEN <<Msg("error", NoValue, "TypeError")>> ELSE <<>>
    ELSE IF Predicate(p, v) /\ obs # None THEN <<Msg("next", v, "")>> ELSE <<>>

\* (mutant) on_error / on_completed without the test of self.observer
BaseOperator_sends_unguarded(obs, note, e) == <<Msg(note, NoValue, e)>>

\* BaseOperator.on_error / on_completed: what it sends to its observer obs
BaseOperator_sends(obs, note, e) ==
    IF obs # None THEN <<Msg(note, NoValue, e)>> ELSE <<>>

\* The operators chained behind the instance: message m reaches stage i (the
\* consumer of subscription c when i is past the last stage); each stage runs
\* its handler and calls the next one synchronously.
RECURSIVE Through(_, _, _)
Through(i, c, m) ==
    IF i > Len(stages)
    THEN <<Final(c, m)>>
    ELSE LET st   == stages[i]
             outs == CASE m.note = "next" /\ st.kind = "SimpleOperator" ->
                             SimpleOperator_sends(st.observer, st.func, m.val)
                       [] m.note = "next" /\ st.kind = "FilteringOperator" ->
                             FilteringOperator_sends(st.observer, st.func, m.val)
                       [] OTHER ->
                             BaseOperator_sends(st.observer, m.note, m.err)
         IN  IF outs = <<>> THEN <<>> ELSE Through(i + 1, c, outs[1])

\* self.observer.on_next(value) / on_error(error) / on_completed(), unguarded:
\* with no observer bound the attribute access on None raises.  The observer of
\* subscription c is the consumer c itself or the first of the chained stages.
Call(note, v, e) ==
    IF observer = None THEN <<Raise("AttributeError")>>
    ELSE <<Deliver(observer, note, v, e)>>
         \o (IF stages = <<>> THEN <<>>
                              ELSE Through(1, observer, Msg(note, v, e)))

\* the calls a handler of SimpleOperator / FilteringOperator / BaseOperator
\* makes on self.observer
Send(msgs) == IF msgs = <<>> THEN <<>>
              ELSE Call(msgs[1].note, msgs[1].val, msgs[1].err)

Raised(entries) == \E i \in 1..Len(entries) : entries[i].ev = "raise"

\* ---------------------------------------------------------------- upstream
Subs == 1..MaxSubs

Received == SelectSeq(trace, LAMBDA r : r.ev = "recv")

\* The upstream of subscription s may call a handler.
Active(s) == up[s] = "active"

MayEmit(s) ==
    Active(s) /\ Len(Received) < (IF stages = <<>> THEN MaxEvents
                                                   ELSE MaxPipeEvents)

\* The handler returned (the upstream goes on) or an exception left it: what
\* the upstream does then is the runtime's choice, it may stop delivering or
\* go on.
AfterHandler(s, entries) ==
    IF Raised(entries)
    THEN \E nxt \in {"active", "stopped"} : up' = [up EXCEPT ![s] = nxt]
    ELSE up' = up

\* After a terminal call the upstream delivers nothing more.
AfterTerminal(s) == up' = [up EXCEPT ![s] = "done"]

\* ---------------------------------------------------------------------- Init
Init ==
    /\ kind \in Kinds
    /\ cfg \in ConfigsOf(kind)
    /\ observer = None
    /\ count = 0
    /\ event_count = 0
    /\ total_count = 0
    /\ logged_count = 0
    /\ timeline = <<>>
    /\ clock = 1
    /\ start_time = IF kind = "ContextualLogger" THEN clock ELSE None
    /\ last_time = None
    /\ item_times = <<>>
    /\ up = [s \in Subs |-> "idle"]
    /\ stages = <<>>
    /\ handle = [s \in Subs |-> None]
    /\ made = NothingMade
    /\ trace = IF kind = "MarbleLogger"
               THEN << [ev |-> "log", level |-> "info", what |-> "marble",
                        n |-> 0, text |-> [i \in 1..cfg.width |-> "-"],
                        suffix |-> "START",
                        cells |-> [i \in 1..cfg.width |-> <<"-">>]] >>
               ELSE <<>>

\* time.time() moves on between two calls (only ContextualLogger and
\* PerformanceLogger read it).
Tick ==
    /\ kind \in {"ContextualLogger", "PerformanceLogger"}
    /\ clock < MaxClock
    /\ clock' = clock + 1
    /\ UNCHANGED <<config, wiring, observer, fields, up, trace>>

\* The subscriptions are made one after the other: the earlier ones have
\* returned their handle and their upstream has ended.
MaySubscribe(s) ==
    /\ up[s] = "idle"
    /\ \A r \in Subs : r < s => /\ up[r] \in {"done", "stopped", "disposed"}
                                /\ handle[r] # None

\* The chained stages are subscribed first, consumer side first: each records
\* its observer (BaseOperator.subscribe) and subscribes to the stage before it.
StagesSubscribed(s) == [i \in DOMAIN stages |-> [stages[i] EXCEPT !.observer = s]]

\* BaseOperator.subscribe: a consumer subscribes to the observable the operator
\* returned: the operator records its observer, subscribes to the source and
\* returns the source's disposable (the disposable of subscription s is s).
subscribe(s) ==
    /\ MaySubscribe(s)
    /\ observer' = s
    /\ up' = [up EXCEPT ![s] = "active"]
    /\ stages' = StagesSubscribed(s)
    /\ handle' = [handle EXCEPT ![s] = s]
    /\ UNCHANGED <<config, made, fields, clock, trace>>

\* --------------------------------------------------------- LoggingOperator
\* x[:5]
FirstFive(xs) == IF Len(xs) <= 5 THEN xs ELSE SubSeq(xs, 1, 5)

\* f"({len(value)} items)"
ItemsNote(v) == <<"(">> \o NatStr(Len(v.items))
                \o <<" ", "i", "t", "e", "m", "s", ")">>

\* s[:97] + "..." if len(s) > 100 else s
Truncated(s) ==
    IF Len(s) > 100 THEN SubSeq(s, 1, 97) \o <<".", ".", ".">> ELSE s

\* _default_format_value
default_format_value(v) ==
    CASE v.kind = "dict" ->
            PyStr(VDict(FirstFive(v.items)))
            \o (IF Len(v.items) > 5 THEN <<".", ".", ".", " ">> \o ItemsNote(v)
                                    ELSE <<>>)
      [] v.kind \in {"list", "tuple"} /\ Len(v.items) > 5 ->
            PyStr([v EXCEPT !.items = FirstFive(v.items)])
            \o <<" ", ".", ".", ".", " ">> \o ItemsNote(v)
      [] OTHER -> Truncated(PyStr(v))

value_formatter(v) ==
    IF cfg.value_formatter = "custom" THEN CustomFormat(v)
                                      ELSE default_format_value(v)

\* (mutant) on_next that logs the value without counting it
LoggingOperator_on_next_uncounted(s, v) ==
    /\ kind = "LoggingOperator" /\ MayEmit(s)
    /\ LET out == IF cfg.log_values
                  THEN IF FormatterRaises(cfg.value_formatter, v)
                       THEN <<Raise("TypeError")>>
                       ELSE <<Log(cfg.log_level, "value", count, 0,
                                  value_formatter(v), "")>>
                            \o Call("next", v, "")
                  ELSE Call("next", v, "")
       IN  /\ trace' = trace \o <<Recv(s, "next", v, "")>> \o out
           /\ AfterHandler(s, out)
    /\ UNCHANGED <<config, wiring, observer, fields, clock>>

LoggingOperator_on_next(s, v) ==
    /\ kind = "LoggingOperator" /\ MayEmit(s)
    /\ LET n   == IF cfg.log_values THEN count + 1 ELSE count
           out == IF cfg.log_values
                  THEN IF FormatterRaises(cfg.value_formatter, v)
                       THEN <<Raise("TypeError")>>
                       ELSE <<Log(cfg.log_level, "value", n, 0,
                                  value_formatter(v), "")>>
                            \o Call("next", v, "")
                  ELSE Call("next", v, "")
       IN  /\ count' = n
           /\ trace' = trace \o <<Recv(s, "next", v, "")>> \o out
           /\ AfterHandler(s, out)
    /\ UNCHANGED <<config, wiring, observer, event_count, total_count, logged_count,
                   timeline, start_time, last_time, item_times, clock>>

\* (mutant) on_error that forwards the error and then completes the observer
LoggingOperator_on_error_then_completed(s, e) ==
    /\ kind = "LoggingOperator" /\ Active(s)
    /\ LET out == (IF cfg.log_errors
                   THEN <<Log("error", "error", 0, 0, <<>>, e)>> ELSE <<>>)
                  \o Call("error", NoValue, e) \o Call("completed", NoValue, "")
       IN  trace' = trace \o <<Recv(s, "error", NoValue, e)>> \o out
    /\ AfterTerminal(s)
    /\ UNCHANGED <<config, wiring, observer, fields, clock>>

LoggingOperator_on_error(s, e) ==
    /\ kind = "LoggingOperator" /\ Active(s)
    /\ LET out == (IF cfg.log_errors
                   THEN <<Log("error", "error", 0, 0, <<>>, e)>> ELSE <<>>)
                  \o Call("error", NoValue, e)
       IN  trace' = trace \o <<Recv(s, "error", NoValue, e)>> \o out
    /\ AfterTerminal(s)
    /\ UNCHANGED <<config, wiring, observer, fields, clock>>

LoggingOperator_on_completed(s) ==
    /\ kind = "LoggingOperator" /\ Active(s)
    /\ LET out == (IF cfg.log_completion
                   THEN <<Log("info", "completed", count, 0, <<>>, "")>>
                   ELSE <<>>)
                  \o Call("completed", NoValue, "")
       IN  trace' = trace \o <<Recv(s, "completed", NoValue, "")>> \o out
    /\ AfterTerminal(s)
    /\ UNCHANGED <<config, wiring, observer, fields, clock>>

\* ------------------------------------------------------------ MarbleLogger
\* the bullet character U+2022, one character
Bullet == "*"

\* the symbol _print_timeline chooses for one recorded event, as characters
Symbol(event) ==
    CASE event.type = "N" ->
            IF IsNumber(event.val) /\ InMarbleRange(event.val)
            THEN IntStr(PyInt(event.val))
            ELSE IF event.val.kind = "str" /\ Len(event.val.s) > 0
                 THEN <<Upper(event.val.s[1])>>
                 ELSE <<Bullet>>
      [] event.type = "E" -> <<"X">>
      [] event.type = "C" -> <<"|">>
      [] OTHER -> <<"-">>

\* (mutant) self.timeline unsliced: every event is placed at its number modulo
\* the width (a ring buffer)
RecentEvents_unsliced(tl, w) == tl

\* (mutant) self.timeline[:self.width]: the first events instead of the last
RecentEvents_first(tl, w) ==
    IF Len(tl) <= w THEN tl ELSE SubSeq(tl, 1, w)

\* self.timeline[-self.width:]
RecentEvents(tl, w) ==
    IF Len(tl) <= w THEN tl ELSE SubSeq(tl, Len(tl) - w + 1, Len(tl))

\* timeline_chars after the loop: cell pos holds the symbol of the last recent
\* event i (counted from 0) with i % width = pos, a dash when there is none.
TimelineChars(tl, w) ==
    LET recent == RecentEvents(tl, w)
        At(pos) == { i \in 0..(Len(recent) - 1) : i % w = pos }
        Last(S) == CHOOSE i \in S : \A j \in S : j <= i
    IN  [c \in 1..w |-> IF At(c - 1) = {} THEN <<"-">>
                        ELSE Symbol(recent[Last(At(c - 1)) + 1])]

RECURSIVE Join(_)
Join(cells) == IF cells = <<>> THEN <<>> ELSE Head(cells) \o Join(Tail(cells))

\* _print_timeline: the record it hands to the logger: the joined line (text),
\* the suffix, and timeline_chars as it stood before the join (cells); n is the
\* number of events recorded so far.
print_timeline(tl, suffix) ==
    [ev |-> "log", level |-> "info", what |-> "marble", n |-> Len(tl),
     text |-> Join(TimelineChars(tl, cfg.width)), suffix |-> suffix,
     cells |-> TimelineChars(tl, cfg.width)]

MarbleEvent(type, v, e) == [type |-> type, val |-> v, err |-> e]

\* (mutant) on_next that forwards the value before it prints the timeline
MarbleLogger_on_next_forwards_first(s, v) ==
    /\ kind = "MarbleLogger" /\ MayEmit(s)
    /\ LET tl  == Append(timeline, MarbleEvent("N", v, ""))
           out == Call("next", v, "") \o <<print_timeline(tl, "")>>
       IN  /\ timeline' = tl
           /\ trace' = trace \o <<Recv(s, "next", v, "")>> \o out
           /\ AfterHandler(s, out)
    /\ UNCHANGED <<config, wiring, observer, count, event_count, total_count,
                   logged_count, start_time, last_time, item_times, clock>>

MarbleLogger_on_next(s, v) ==
    /\ kind = "MarbleLogger" /\ MayEmit(s)
    /\ LET tl  == Append(timeline, MarbleEvent("N", v, ""))
           out == <<print_timeline(tl, "")>> \o Call("next", v, "")
       IN  /\ timeline' = tl
           /\ trace' = trace \o <<Recv(s, "next", v, "")>> \o out
           /\ AfterHandler(s, out)
    /\ UNCHANGED <<config, wiring, observer, count, event_count, total_count,
                   logged_count, start_time, last_time, item_times, clock>>

MarbleLogger_on_error(s, e) ==
    /\ kind = "MarbleLogger" /\ Active(s)
    /\ LET tl  == Append(timeline, MarbleEvent("E", NoValue, e))
           out == <<print_timeline(tl, "ERROR: " \o e)>>
                  \o Call("error", NoValue, e)
       IN  /\ timeline' = tl
           /\ trace' = trace \o <<Recv(s, "error", NoValue, e)>> \o out
    /\ AfterTerminal(s)
    /\ UNCHANGED <<config, wiring, observer, count, event_count, total_count,
                   logged_count, start_time, last_time, item_times, clock>>

MarbleLogger_on_completed(s) ==
    /\ kind = "MarbleLogger" /\ Active(s)
    /\ LET tl  == Append(timeline, MarbleEvent("C", NoValue, ""))
           out == <<print_timeline(tl, "COMPLETED")>>
                  \o Call("completed", NoValue, "")
       IN  /\ timeline' = tl
           /\ trace' = trace \o <<Recv(s, "completed", NoValue, "")>> \o out
    /\ AfterTerminal(s)
    /\ UNCHANGED <<config, wiring, observer, count, event_count, total_count,
                   logged_count, start_time, last_time, item_times, clock>>

\* -------------------------------------------------------- ContextualLogger
ContextualLogger_on_next(s, v) ==
    /\ kind = "ContextualLogger" /\ MayEmit(s)
    /\ LET n   == event_count + 1
           out == <<Log("info", "value", n, clock - start_time, PyStr(v), v.kind)>>
                  \o Call("next", v, "")
       IN  /\ event_count' = n
           /\ trace' = trace \o <<Recv(s, "next", v, "")>> \o out
           /\ AfterHandler(s, out)
    /\ UNCHANGED <<config, wiring, observer, count, total_count, logged_count,
                   timeline, start_time, last_time, item_times, clock>>

\* (mutant) on_error that counts the error as an event
ContextualLogger_on_error_counts(s, e) ==
    /\ kind = "ContextualLogger" /\ Active(s)
    /\ LET out == <<Log("error", "error", event_count + 1, clock - start_time,
                        <<>>, e)>>
                  \o Call("error", NoValue, e)
       IN  trace' = trace \o <<Recv(s, "error", NoValue, e)>> \o out
    /\ event_count' = event_count + 1
    /\ AfterTerminal(s)
    /\ UNCHANGED <<config, wiring, observer, count, total_count, logged_count,
                   timeline, start_time, last_time, item_times, clock>>

ContextualLogger_on_error(s, e) ==
    /\ kind = "ContextualLogger" /\ Active(s)
    /\ LET out == <<Log("error", "error", event_count, clock - start_time, <<>>, e)>>
                  \o Call("error", NoValue, e)
       IN  trace' = trace \o <<Recv(s, "error", NoValue, e)>> \o out
    /\ AfterTerminal(s)
    /\ UNCHANGED <<config, wiring, observer, fields, clock>>

ContextualLogger_on_completed(s) ==
    /\ kind = "ContextualLogger" /\ Active(s)
    /\ LET out == <<Log("info", "completed", event_count, clock - start_time,
                        <<>>, "")>>
                  \o Call("completed", NoValue, "")
       IN  trace' = trace \o <<Recv(s, "completed", NoValue, "")>> \o out
    /\ AfterTerminal(s)
    /\ UNCHANGED <<config, wiring, observer, fields, clock>>

\* ------------------------------------------------------ RichLoggerOperator
\* the branch on_next takes: _log_dict, _log_collection, _log_number, _log_default
RichBranch(v) ==
    CASE v.kind = "dict"             -> "Dict"
      [] v.kind \in {"list", "tuple"} -> "Collection"
      [] IsNumber(v)                 -> "Number"
      [] OTHER                       -> "Value"

\* _log_number: the colour of a number
NumberColor(v) == IF v.n > 0 THEN "green" ELSE IF v.n < 0 THEN "red" ELSE "blue"

RichLoggerOperator_on_next(s, v) ==
    /\ kind = "RichLoggerOperator" /\ MayEmit(s)
    /\ LET n   == count + 1
           out == <<Log("info", RichBranch(v), None, 0, PyStr(v),
                        IF RichBranch(v) = "Number" THEN NumberColor(v) ELSE "")>>
                  \o Call("next", v, "")
       IN  /\ count' = n
           /\ trace' = trace \o <<Recv(s, "next", v, "")>> \o out
           /\ AfterHandler(s, out)
    /\ UNCHANGED <<config, wiring, observer, event_count, total_count, logged_count,
                   timeline, start_time, last_time, item_times, clock>>

RichLoggerOperator_on_error(s, e) ==
    /\ kind = "RichLoggerOperator" /\ Active(s)
    /\ LET out == <<Log("error", "error", None, 0, <<>>, e)>>
                  \o Call("error", NoValue, e)
       IN  trace' = trace \o <<Recv(s, "error", NoValue, e)>> \o out
    /\ AfterTerminal(s)
    /\ UNCHANGED <<config, wiring, observer, fields, clock>>

RichLoggerOperator_on_completed(s) ==
    /\ kind = "RichLoggerOperator" /\ Active(s)
    /\ LET out == <<Log("success", "completed", count, 0, <<>>, "")>>
                  \o Call("completed", NoValue, "")
       IN  trace' = trace \o <<Recv(s, "completed", NoValue, "")>> \o out
    /\ AfterTerminal(s)
    /\ UNCHANGED <<config, wiring, observer, fields, clock>>

\* ------------------------------------------------------- PerformanceLogger
Sum(seq) == LET S[i \in 0..Len(seq)] == IF i = 0 THEN 0 ELSE S[i - 1] + seq[i]
            IN  S[Len(seq)]
Min(seq) == CHOOSE x \in { seq[i] : i \in 1..Len(seq) } :
                \A i \in 1..Len(seq) : x <= seq[i]
Max(seq) == CHOOSE x \in { seq[i] : i \in 1..Len(seq) } :
                \A i \in 1..Len(seq) : x >= seq[i]

\* (mutant) _log_stats that divides the sum of the intervals by the count
log_stats_mean_over_count(status, start, times, n, now) ==
    IF start = None \/ start = 0 \/ n = 0
    THEN <<>>
    ELSE << [ev |-> "log", level |-> "info", what |-> "stats", status |-> status,
             n |-> n, total_time |-> now - start,
             sum |-> IF times # <<>> THEN Sum(times) ELSE 0,
             len |-> n,
             min |-> IF times # <<>> THEN Min(times) ELSE 0,
             max |-> IF times # <<>> THEN Max(times) ELSE 0] >>

\* _log_stats: the records it hands to the logger, none when it returns early.
\* The mean interval is sum / len, kept as the pair (sum, len).
log_stats(status, start, times, n, now) ==
    IF start = None \/ start = 0 \/ n = 0
    THEN <<>>
    ELSE << [ev |-> "log", level |-> "info", what |-> "stats", status |-> status,
             n |-> n, total_time |-> now - start,
             sum |-> IF times # <<>> THEN Sum(times) ELSE 0,
             len |-> Len(times),
             min |-> IF times # <<>> THEN Min(times) ELSE 0,
             max |-> IF times # <<>> THEN Max(times) ELSE 0] >>

\* (mutant) on_next that measures every interval from the first value
PerformanceLogger_on_next_keeps_last(s, v) ==
    /\ kind = "PerformanceLogger" /\ MayEmit(s)
    /\ LET now   == clock
           first == start_time = None
           start == IF first THEN now ELSE start_time
           times == IF first THEN item_times
                             ELSE Append(item_times, now - last_time)
           n     == count + 1
           out   == (IF cfg.log_interval # None /\ cfg.log_interval # 0
                        /\ n % cfg.log_interval = 0
                     THEN log_stats("PROGRESS", start, times, n, clock)
                     ELSE <<>>)
                    \o Call("next", v, "")
       IN  /\ start_time' = start
           /\ last_time' = IF first THEN now ELSE last_time
           /\ item_times' = times
           /\ count' = n
           /\ trace' = trace \o <<Recv(s, "next", v, "")>> \o out
           /\ AfterHandler(s, out)
    /\ UNCHANGED <<config, wiring, observer, event_count, total_count, logged_count,
                   timeline, clock>>

\* (mutant) on_next that logs PROGRESS statistics on every value
PerformanceLogger_on_next_every_value(s, v) ==
    /\ kind = "PerformanceLogger" /\ MayEmit(s)
    /\ LET now   == clock
           first == start_time = None
           start == IF first THEN now ELSE start_time
           times == IF first THEN item_times
                             ELSE Append(item_times, now - last_time)
           n     == count + 1
           out   == (IF cfg.log_interval # None /\ cfg.log_interval # 0
                     THEN log_stats("PROGRESS", start, times, n, clock)
                     ELSE <<>>)
                    \o Call("next", v, "")
       IN  /\ start_time' = start
           /\ last_time' = now
           /\ item_times' = times
           /\ count' = n
           /\ trace' = trace \o <<Recv(s, "next", v, "")>> \o out
           /\ AfterHandler(s, out)
    /\ UNCHANGED <<config, wiring, observer, event_count, total_count, logged_count,
                   timeline, clock>>

PerformanceLogger_on_next(s, v) ==
    /\ kind = "PerformanceLogger" /\ MayEmit(s)
    /\ LET now   == clock
           first == start_time = None
           start == IF first THEN now ELSE start_time
           times == IF first THEN item_times
                             ELSE Append(item_times, now - last_time)
           n     == count + 1
           out   == (IF cfg.log_interval # None /\ cfg.log_interval # 0
                        /\ n % cfg.log_interval = 0
                     THEN log_stats("PROGRESS", start, times, n, clock)
                     ELSE <<>>)
                    \o Call("next", v, "")
       IN  /\ start_time' = start
           /\ last_time' = now
           /\ item_times' = times
           /\ count' = n
           /\ trace' = trace \o <<Recv(s, "next", v, "")>> \o out
           /\ AfterHandler(s, out)
    /\ UNCHANGED <<config, wiring, observer, event_count, total_count, logged_count,
                   timeline, clock>>

PerformanceLogger_on_error(s, e) ==
    /\ kind = "PerformanceLogger" /\ Active(s)
    /\ LET out == log_stats("ERROR", start_time, item_times, count, clock)
                  \o Call("error", NoValue, e)
       IN  trace' = trace \o <<Recv(s, "error", NoValue, e)>> \o out
    /\ AfterTerminal(s)
    /\ UNCHANGED <<config, wiring, observer, fields, clock>>

PerformanceLogger_on_completed(s) ==
    /\ kind = "PerformanceLogger" /\ Active(s)
    /\ LET out == log_stats("COMPLETED", start_time, item_times, count, clock)
                  \o Call("completed", NoValue, "")
       IN  trace' = trace \o <<Recv(s, "completed", NoValue, "")>> \o out
    /\ AfterTerminal(s)
    /\ UNCHANGED <<config, wiring, observer, fields, clock>>

\* ------------------------------------------------------- ConditionalLogger
\* (mutant) on_next that counts a value only when it is logged
ConditionalLogger_on_next_counts_logged(s, v) ==
    /\ kind = "ConditionalLogger" /\ MayEmit(s)
    /\ LET raises == cfg.value_predicate # "None"
                     /\ ValuePredicateRaises(cfg.value_predicate, v)
           should == ~raises /\ (cfg.value_predicate = "None"
                                 \/ ValuePredicate(cfg.value_predicate, v))
           total  == IF should THEN total_count + 1 ELSE total_count
           logged == IF should THEN logged_count + 1 ELSE logged_count
           out    == IF raises
                     THEN <<Raise("TypeError")>>
                     ELSE (IF should
                           THEN <<Log(cfg.log_level, "value", logged, total,
                                      PyStr(v), "")>>
                           ELSE <<>>)
                          \o Call("next", v, "")
       IN  /\ total_count' = total
           /\ logged_count' = logged
           /\ trace' = trace \o <<Recv(s, "next", v, "")>> \o out
           /\ AfterHandler(s, out)
    /\ UNCHANGED <<config, wiring, observer, count, event_count, timeline, start_time,
                   last_time, item_times, clock>>

ConditionalLogger_on_next(s, v) ==
    /\ kind = "ConditionalLogger" /\ MayEmit(s)
    /\ LET total  == total_count + 1
           raises == cfg.value_predicate # "None"
                     /\ ValuePredicateRaises(cfg.value_predicate, v)
           should == ~raises /\ (cfg.value_predicate = "None"
                                 \/ ValuePredicate(cfg.value_predicate, v))
           logged == IF should THEN logged_count + 1 ELSE logged_count
           out    == IF raises
                     THEN <<Raise("TypeError")>>
                     ELSE (IF should
                           THEN <<Log(cfg.log_level, "value", logged, total,
                                      PyStr(v), "")>>
                           ELSE <<>>)
                          \o Call("next", v, "")
       IN  /\ total_count' = total
           /\ logged_count' = logged
           /\ trace' = trace \o <<Recv(s, "next", v, "")>> \o out
           /\ AfterHandler(s, out)
    /\ UNCHANGED <<config, wiring, observer, count, event_count, timeline, start_time,
                   last_time, item_times, clock>>

\* (mutant) on_error that logs the error whatever the predicate answers
ConditionalLogger_on_error_logs_all(s, e) ==
    /\ kind = "ConditionalLogger" /\ Active(s)
    /\ LET raises == cfg.error_predicate # "None"
                     /\ ErrorPredicateRaises(cfg.error_predicate, e)
           out    == IF raises
                     THEN <<Raise("AttributeError")>>
                     ELSE <<Log("error", "error", 0, 0, <<>>, e)>>
                          \o Call("error", NoValue, e)
       IN  trace' = trace \o <<Recv(s, "error", NoValue, e)>> \o out
    /\ AfterTerminal(s)
    /\ UNCHANGED <<config, wiring, observer, fields, clock>>

ConditionalLogger_on_error(s, e) ==
    /\ kind = "ConditionalLogger" /\ Active(s)
    /\ LET raises == cfg.error_predicate # "None"
                     /\ ErrorPredicateRaises(cfg.error_predicate, e)
           should == ~raises /\ (cfg.error_predicate = "None"
                                 \/ ErrorPredicate(cfg.error_predicate, e))
           out    == IF raises
                     THEN <<Raise("AttributeError")>>
                     ELSE (IF should
                           THEN <<Log("error", "error", 0, 0, <<>>, e)>>
                           ELSE <<>>)
                          \o Call("error", NoValue, e)
       IN  trace' = trace \o <<Recv(s, "error", NoValue, e)>> \o out
    /\ AfterTerminal(s)
    /\ UNCHANGED <<config, wiring, observer, fields, clock>>

\* (mutant) on_completed that summarizes also when no value was seen
ConditionalLogger_on_completed_summarizes_empty(s) ==
    /\ kind = "ConditionalLogger" /\ Active(s)
    /\ LET out == (IF cfg.summarize
                   THEN <<Log("info", "summary", logged_count, total_count,
                              <<>>, "")>>
                   ELSE <<>>)
                  \o Call("completed", NoValue, "")
       IN  trace' = trace \o <<Recv(s, "completed", NoValue, "")>> \o out
    /\ AfterTerminal(s)
    /\ UNCHANGED <<config, wiring, observer, fields, clock>>

ConditionalLogger_on_completed(s) ==
    /\ kind = "ConditionalLogger" /\ Active(s)
    /\ LET out == (IF cfg.summarize /\ total_count > 0
                   THEN <<Log("info", "summary", logged_count, total_count,
                              <<>>, "")>>
                   ELSE <<>>)
                  \o Call("completed", NoValue, "")
       IN  trace' = trace \o <<Recv(s, "completed", NoValue, "")>> \o out
    /\ AfterTerminal(s)
    /\ UNCHANGED <<config, wiring, observer, fields, clock>>

\* ---------------------------------------------------------------------- Next
Next ==
    \/ Tick
    \/ \E s \in Subs : subscribe(s)
    \/ \E s \in Subs, v \in ValuesOf(kind) : LoggingOperator_on_next(s, v)
    \/ \E s \in Subs, e \in Errors : LoggingOperator_on_error(s, e)
    \/ \E s \in Subs : LoggingOperator_on_completed(s)
    \/ \E s \in Subs, v \in ValuesOf(kind) : MarbleLogger_on_next(s, v)
    \/ \E s \in Subs, e \in Errors : MarbleLogger_on_error(s, e)
    \/ \E s \in Subs : MarbleLogger_on_completed(s)
    \/ \E s \in Subs, v \in ValuesOf(kind) : ContextualLogger_on_next(s, v)
    \/ \E s \in Subs, e \in Errors : ContextualLogger_on_error(s, e)
    \/ \E s \in Subs : ContextualLogger_on_completed(s)
    \/ \E s \in Subs, v \in ValuesOf(kind) : RichLoggerOperator_on_next(s, v)
    \/ \E s \in Subs, e \in Errors : RichLoggerOperator_on_error(s, e)
    \/ \E s \in Subs : RichLoggerOperator_on_completed(s)
    \/ \E s \in Subs, v \in ValuesOf(kind) : PerformanceLogger_on_next(s, v)
    \/ \E s \in Subs, e \in Errors : PerformanceLogger_on_error(s, e)
    \/ \E s \in Subs : PerformanceLogger_on_completed(s)
    \/ \E s \in Subs, v \in ValuesOf(kind) : ConditionalLogger_on_next(s, v)
    \/ \E s \in Subs, e \in Errors : ConditionalLogger_on_error(s, e)
    \/ \E s \in Subs : ConditionalLogger_on_completed(s)

Spec == Init /\ [][Next]_vars

\* ------------------------------------------------- the basis operators alone
\* One instance of SimpleOperator(lambda x: x * 2) or
\* FilteringOperator(lambda x: x > 5), created by create_operator or directly.
BasisKinds == { "SimpleOperator", "FilteringOperator" }

InitBasis ==
    /\ kind \in BasisKinds
    /\ cfg = DefaultCfg
    /\ observer = None
    /\ count = 0
    /\ event_count = 0
    /\ total_count = 0
    /\ logged_count = 0
    /\ timeline = <<>>
    /\ clock = 1
    /\ start_time = None
    /\ last_time = None
    /\ item_times = <<>>
    /\ up = [s \in Subs |-> "idle"]
    /\ stages = <<>>
    /\ handle = [s \in Subs |-> None]
    /\ made = NothingMade
    /\ trace = <<>>

\* (mutant) subscribe that subscribes to the source before recording the observer
subscribe_call_unbound(s) ==
    /\ kind \in BasisKinds /\ MaySubscribe(s)
    /\ up' = [up EXCEPT ![s] = "active"]
    /\ UNCHANGED <<config, wiring, observer, fields, clock, trace>>

\* BaseOperator.subscribe up to the call of source.subscribe: the observer is
\* recorded (line 87) and the source is being subscribed, so it may already
\* call the handlers; nothing has been returned to the consumer yet.
subscribe_call(s) ==
    /\ kind \in BasisKinds /\ MaySubscribe(s)
    /\ observer' = s
    /\ up' = [up EXCEPT ![s] = "active"]
    /\ UNCHANGED <<config, wiring, fields, clock, trace>>

\* (mutant) subscribe that wraps the source's disposable in one of its own
\* (disposable 0) whose dispose does not reach the source
subscribe_return_own(s) ==
    /\ kind \in BasisKinds /\ up[s] # "idle" /\ handle[s] = None
    /\ handle' = [handle EXCEPT ![s] = 0]
    /\ UNCHANGED <<config, stages, made, observer, fields, clock, up, trace>>

\* BaseOperator.subscribe returns: source.subscribe returned its disposable
\* and the operator hands that same object to the consumer.
subscribe_return(s) ==
    /\ kind \in BasisKinds /\ up[s] # "idle" /\ handle[s] = None
    /\ handle' = [handle EXCEPT ![s] = s]
    /\ UNCHANGED <<config, stages, made, observer, fields, clock, up, trace>>

\* The consumer of subscription s disposes the handle it was given (once, while
\* the source is still running: afterwards there is nothing left to cancel).
\* The source's disposable stops the source; the operator has no dispose code.
dispose(s) ==
    /\ kind \in BasisKinds /\ handle[s] # None /\ up[s] = "active"
    /\ \A i \in 1..Len(trace) : trace[i] # Disposed(s)
    /\ trace' = trace \o <<Disposed(s)>>
    /\ up' = IF handle[s] = s /\ up[s] = "active"
             THEN [up EXCEPT ![s] = "disposed"] ELSE up
    /\ UNCHANGED <<config, wiring, observer, fields, clock>>

SimpleOperator_on_next(s, v) ==
    /\ kind = "SimpleOperator" /\ MayEmit(s)
    /\ LET out == Send(SimpleOperator_sends(observer, cfg.transform_func, v))
       IN  /\ trace' = trace \o <<Recv(s, "next", v, "")>> \o out
           /\ AfterHandler(s, out)
    /\ UNCHANGED <<config, wiring, observer, fields, clock>>

FilteringOperator_on_next(s, v) ==
    /\ kind = "FilteringOperator" /\ MayEmit(s)
    /\ LET out == Send(FilteringOperator_sends(observer, cfg.predicate, v))
       IN  /\ trace' = trace \o <<Recv(s, "next", v, "")>> \o out
           /\ AfterHandler(s, out)
    /\ UNCHANGED <<config, wiring, observer, fields, clock>>

BaseOperator_on_error(s, e) ==
    /\ kind \in BasisKinds /\ Active(s)
    /\ trace' = trace \o <<Recv(s, "error", NoValue, e)>>
                      \o Send(BaseOperator_sends(observer, "error", e))
    /\ AfterTerminal(s)
    /\ UNCHANGED <<config, wiring, observer, fields, clock>>

BaseOperator_on_completed(s) ==
    /\ kind \in BasisKinds /\ Active(s)
    /\ trace' = trace \o <<Recv(s, "completed", NoValue, "")>>
                      \o Send(BaseOperator_sends(observer, "completed", ""))
    /\ AfterTerminal(s)
    /\ UNCHANGED <<config, wiring, observer, fields, clock>>

NextBasis ==
    \/ \E s \in Subs : subscribe_call(s)
    \/ \E s \in Subs : subscribe_return(s)
    \/ \E s \in Subs : dispose(s)
    \/ \E s \in Subs, v \in ValuesOf(kind) : SimpleOperator_on_next(s, v)
    \/ \E s \in Subs, v \in ValuesOf(kind) : FilteringOperator_on_next(s, v)
    \/ \E s \in Subs, e \in Errors : BaseOperator_on_error(s, e)
    \/ \E s \in Subs : BaseOperator_on_completed(s)

SpecBasis == InitBasis /\ [][NextBasis]_vars

\* ------------------------------------------------------- every operator class
\* reset_state was called from outside the handlers
Reset == [ev |-> "reset"]

\* "Called when the operator needs to reset its state, typically after
\* completion or error": a subscription has ended and none is running.
MayReset ==
    /\ \E s \in Subs : up[s] = "done"
    /\ \A s \in Subs : up[s] # "active"

\* the attributes of the PerformanceLogger instance
Attrs ==
    [start_time |-> start_time, last_time |-> last_time,
     item_times |-> item_times, count |-> count,
     log_interval |-> cfg.log_interval, observer |-> observer]

\* (mutant) reset_state that keeps the interval list
reset_state_keeps_intervals(self) ==
    [self EXCEPT !.start_time = None, !.last_time = None, !.count = 0]

\* PerformanceLogger.reset_state: the attributes it leaves behind
reset_state(self) ==
    [self EXCEPT !.start_time = None, !.last_time = None, !.item_times = <<>>,
                 !.count = 0]

\* (mutant) reset_state that also forgets the log interval
PerformanceLogger_reset_state_all ==
    /\ kind = "PerformanceLogger" /\ MayReset
    /\ <<start_time, last_time, item_times, count>> # <<None, None, <<>>, 0>>
    /\ trace' = Append(trace, Reset)
    /\ start_time' = None
    /\ last_time' = None
    /\ item_times' = <<>>
    /\ count' = 0
    /\ cfg' = [cfg EXCEPT !.log_interval = None]
    /\ UNCHANGED <<kind, wiring, observer, event_count, total_count, logged_count,
                   timeline, clock, up>>

\* PerformanceLogger.reset_state, called on the instance between two
\* subscriptions (a call on a fresh instance changes nothing and is left out)
PerformanceLogger_reset_state ==
    /\ kind = "PerformanceLogger" /\ MayReset
    /\ <<start_time, last_time, item_times, count>> # <<None, None, <<>>, 0>>
    /\ trace' = Append(trace, Reset)
    /\ LET self == reset_state(Attrs)
       IN  /\ start_time' = self.start_time
           /\ last_time' = self.last_time
           /\ item_times' = self.item_times
           /\ count' = self.count
           /\ cfg' = [cfg EXCEPT !.log_interval = self.log_interval]
           /\ observer' = self.observer
    /\ UNCHANGED <<kind, wiring, event_count, total_count, logged_count,
                   timeline, clock, up>>

\* One instance of any of the eight classes, every handler and reset_state.
InitAll == Init \/ InitBasis

NextAll ==
    \/ Next
    \/ NextBasis
    \/ PerformanceLogger_reset_state

SpecAll == InitAll /\ [][NextAll]_vars

\* ------------------------------------------- PerformanceLogger with resets
\* One PerformanceLogger, its handlers, the clock and reset_state.
InitPerf == Init /\ kind = "PerformanceLogger"

NextPerf ==
    \/ Tick
    \/ \E s \in Subs : subscribe(s)
    \/ \E s \in Subs, v \in ValuesOf(kind) : PerformanceLogger_on_next(s, v)
    \/ \E s \in Subs, e \in Errors : PerformanceLogger_on_error(s, e)
    \/ \E s \in Subs : PerformanceLogger_on_completed(s)
    \/ PerformanceLogger_reset_state

SpecPerf == InitPerf /\ [][NextPerf]_vars

\* ------------------------------------------------ a StatefulOperator subclass
\* A subclass of StatefulOperator that implements the two abstract methods and
\* keeps the inherited on_completed / on_error: on_next accumulates state (the
\* number of values, in count) and forwards the value, reset_state clears it.
InitStateful ==
    /\ kind = "StatefulOperator"
    /\ cfg = DefaultCfg
    /\ observer = None
    /\ count = 0
    /\ event_count = 0
    /\ total_count = 0
    /\ logged_count = 0
    /\ timeline = <<>>
    /\ clock = 1
    /\ start_time = None
    /\ last_time = None
    /\ item_times = <<>>
    /\ up = [s \in Subs |-> "idle"]
    /\ stages = <<>>
    /\ handle = [s \in Subs |-> None]
    /\ made = NothingMade
    /\ trace = <<>>

StatefulOperator_on_next(s, v) ==
    /\ kind = "StatefulOperator" /\ MayEmit(s)
    /\ LET out == IF observer # None THEN Call("next", v, "") ELSE <<>>
       IN  /\ count' = count + 1
           /\ trace' = trace \o <<Recv(s, "next", v, "")>> \o out
           /\ AfterHandler(s, out)
    /\ UNCHANGED <<config, wiring, observer, event_count, total_count, logged_count,
                   timeline, start_time, last_time, item_times, clock>>

\* (mutant) on_completed that resets the state before it forwards
StatefulOperator_on_completed_reset_first(s) ==
    /\ kind = "StatefulOperator" /\ Active(s)
    /\ trace' = trace \o <<Recv(s, "completed", NoValue, ""), Reset>>
                      \o Send(BaseOperator_sends(observer, "completed", ""))
    /\ count' = 0
    /\ AfterTerminal(s)
    /\ UNCHANGED <<config, wiring, observer, event_count, total_count, logged_count,
                   timeline, start_time, last_time, item_times, clock>>

\* StatefulOperator.on_completed: super().on_completed(), then reset_state()
StatefulOperator_on_completed(s) ==
    /\ kind = "StatefulOperator" /\ Active(s)
    /\ trace' = trace \o <<Recv(s, "completed", NoValue, "")>>
                      \o Send(BaseOperator_sends(observer, "completed", ""))
                      \o <<Reset>>
    /\ count' = 0
    /\ AfterTerminal(s)
    /\ UNCHANGED <<config, wiring, observer, event_count, total_count, logged_count,
                   timeline, start_time, last_time, item_times, clock>>

\* StatefulOperator.on_error: super().on_error(error), then reset_state()
StatefulOperator_on_error(s, e) ==
    /\ kind = "StatefulOperator" /\ Active(s)
    /\ trace' = trace \o <<Recv(s, "error", NoValue, e)>>
                      \o Send(BaseOperator_sends(observer, "error", e))
                      \o <<Reset>>
    /\ count' = 0
    /\ AfterTerminal(s)
    /\ UNCHANGED <<config, wiring, observer, event_count, total_count, logged_count,
                   timeline, start_time, last_time, item_times, clock>>

NextStateful ==
    \/ \E s \in Subs : subscribe(s)
    \/ \E s \in Subs, v \in ValuesOf(kind) : StatefulOperator_on_next(s, v)
    \/ \E s \in Subs, e \in Errors : StatefulOperator_on_error(s, e)
    \/ \E s \in Subs : StatefulOperator_on_completed(s)

SpecStateful == InitStateful /\ [][NextStateful]_vars

\* ------------------------------------------------------------- the pipeline
\* source.pipe(LoggingOperator(name), SimpleOperator(lambda x: x * 2),
\* FilteringOperator(lambda x: x > 5)).subscribe(consumer): the instance is the
\* LoggingOperator with its default configuration, the other two are chained
\* behind it; one subscription, the source delivers numbers 1..5 in any order.
PipeValues == { VInt(i) : i \in 1..5 }

Stage(k, f) == [kind |-> k, func |-> f, observer |-> None]

InitPipeline ==
    /\ kind = "LoggingOperator"
    /\ cfg = DefaultCfg
    /\ observer = None
    /\ count = 0
    /\ event_count = 0
    /\ total_count = 0
    /\ logged_count = 0
    /\ timeline = <<>>
    /\ clock = 1
    /\ start_time = None
    /\ last_time = None
    /\ item_times = <<>>
    /\ up = [s \in Subs |-> "idle"]
    /\ stages = << Stage("SimpleOperator", DefaultCfg.transform_func),
                   Stage("FilteringOperator", DefaultCfg.predicate) >>
    /\ handle = [s \in Subs |-> None]
    /\ made = NothingMade
    /\ trace = <<>>

NextPipeline ==
    \/ subscribe(1)
    \/ \E v \in PipeValues : LoggingOperator_on_next(1, v)
    \/ \E e \in Errors : LoggingOperator_on_error(1, e)
    \/ LoggingOperator_on_completed(1)

SpecPipeline == InitPipeline /\ [][NextPipeline]_vars

\* ------------------------------------------------- the default formatter
\* source.pipe(LoggingOperator(name)).subscribe(consumer) with the default
\* value_formatter; the source delivers texts of 100 and 101 characters and
\* lists, tuples and dicts of 1, 5 and 6 entries.
LongText(k) == [i \in 1..k |-> "x"]
Ints(k)     == [i \in 1..k |-> VInt(i)]
Entries(k)  == [i \in 1..k |-> [key |-> VInt(i), val |-> VInt(i)]]

FormatValues ==
    { VInt(7), VStr(LongText(100)), VStr(LongText(101)),
      VList(Ints(5)), VList(Ints(6)), VList(<<VStr(LongText(101))>>),
      VTuple(Ints(1)), VTuple(Ints(6)),
      VDict(Entries(5)), VDict(Entries(6)),
      VDict(<<[key |-> VInt(1), val |-> VStr(LongText(101))]>>) }

InitFormat == Init /\ kind = "LoggingOperator" /\ cfg = DefaultCfg

NextFormat ==
    \/ subscribe(1)
    \/ \E v \in FormatValues : LoggingOperator_on_next(1, v)
    \/ LoggingOperator_on_completed(1)

SpecFormat == InitFormat /\ [][NextFormat]_vars

\* ------------------------------------------------ overlapping subscriptions
\* obs = source.pipe(op); obs.subscribe(consumer1); obs.subscribe(consumer2)
\* while the first subscription is still running: BaseOperator.subscribe runs
\* on the one instance op for each of them, in the order of the subscribe calls.
MayOverlap(s) ==
    /\ up[s] = "idle"
    /\ \A r \in Subs : r < s => up[r] # "idle"

\* (mutant) subscribe that keeps the observer it already has
subscribe_overlapping_keeps_first(s) ==
    /\ MayOverlap(s)
    /\ observer' = IF observer = None THEN s ELSE observer
    /\ up' = [up EXCEPT ![s] = "active"]
    /\ stages' = StagesSubscribed(s)
    /\ handle' = [handle EXCEPT ![s] = s]
    /\ UNCHANGED <<config, made, fields, clock, trace>>

subscribe_overlapping(s) ==
    /\ MayOverlap(s)
    /\ observer' = s
    /\ up' = [up EXCEPT ![s] = "active"]
    /\ stages' = StagesSubscribed(s)
    /\ handle' = [handle EXCEPT ![s] = s]
    /\ UNCHANGED <<config, made, fields, clock, trace>>

InitOverlap == Init /\ kind = "LoggingOperator" /\ cfg = DefaultCfg

NextOverlap ==
    \/ \E s \in Subs : subscribe_overlapping(s)
    \/ \E s \in Subs, v \in ValuesOf(kind) : LoggingOperator_on_next(s, v)
    \/ \E s \in Subs, e \in Errors : LoggingOperator_on_error(s, e)
    \/ \E s \in Subs : LoggingOperator_on_completed(s)

SpecOverlap == InitOverlap /\ [][NextOverlap]_vars

\* -------------------------------------------------------- create_operator
\* factory = create_operator(LoggingOperator, name); observable a is
\* factory(source), the a-th application; consumer a subscribes to it.
\* made.operators holds the operators constructed so far (their observer and
\* count), made.observables[a] is the operator observable a subscribes through.
NewOperator == [observer |-> None, count |-> 0]

OperatorOf(a) == made.operators[made.observables[a]]

\* (mutant) a factory that constructs its operator once and applies that one
operator_factory_shared(a) ==
    /\ a = Len(made.observables) + 1
    /\ made' = IF made.operators = <<>>
               THEN [operators |-> <<NewOperator>>, observables |-> <<1>>]
               ELSE [made EXCEPT !.observables = Append(@, 1)]
    /\ UNCHANGED <<config, stages, handle, observer, fields, clock, up, trace>>

\* operator_factory(source): operator = operator_class(*args, **kwargs);
\* return operator(source)
operator_factory(a) ==
    /\ a = Len(made.observables) + 1
    /\ made' = [operators   |-> Append(made.operators, NewOperator),
                observables |-> Append(made.observables, Len(made.operators) + 1)]
    /\ UNCHANGED <<config, stages, handle, observer, fields, clock, up, trace>>

\* BaseOperator.subscribe of the operator behind observable a
made_subscribe(a) ==
    /\ a <= Len(made.observables) /\ up[a] = "idle"
    /\ made' = [made EXCEPT !.operators[made.observables[a]].observer = a]
    /\ up' = [up EXCEPT ![a] = "active"]
    /\ handle' = [handle EXCEPT ![a] = a]
    /\ UNCHANGED <<config, stages, observer, fields, clock, trace>>

\* self.observer.on_next / on_error / on_completed of the operator behind a
made_call(a, note, v, e) ==
    IF OperatorOf(a).observer = None THEN <<Raise("AttributeError")>>
    ELSE <<Deliver(OperatorOf(a).observer, note, v, e)>>

\* LoggingOperator.on_next of the operator behind observable a
made_on_next(a, v) ==
    /\ MayEmit(a)
    /\ LET n == OperatorOf(a).count + 1
       IN  /\ made' = [made EXCEPT !.operators[made.observables[a]].count = n]
           /\ trace' = trace \o <<Recv(a, "next", v, ""),
                                  Log(cfg.log_level, "value", n, 0,
                                      value_formatter(v), "")>>
                             \o made_call(a, "next", v, "")
    /\ UNCHANGED <<config, stages, handle, observer, fields, clock, up>>

\* LoggingOperator.on_error of the operator behind observable a
made_on_error(a, e) ==
    /\ Active(a)
    /\ trace' = trace \o <<Recv(a, "error", NoValue, e),
                           Log("error", "error", 0, 0, <<>>, e)>>
                      \o made_call(a, "error", NoValue, e)
    /\ AfterTerminal(a)
    /\ UNCHANGED <<config, wiring, observer, fields, clock>>

\* LoggingOperator.on_completed of the operator behind observable a
made_on_completed(a) ==
    /\ Active(a)
    /\ trace' = trace \o <<Recv(a, "completed", NoValue, ""),
                           Log("info", "completed", OperatorOf(a).count, 0,
                               <<>>, "")>>
                      \o made_call(a, "completed", NoValue, "")
    /\ AfterTerminal(a)
    /\ UNCHANGED <<config, wiring, observer, fields, clock>>

InitFactory == Init /\ kind = "LoggingOperator" /\ cfg = DefaultCfg

NextFactory ==
    \/ \E a \in Subs : operator_factory(a)
    \/ \E a \in Subs : made_subscribe(a)
    \/ \E a \in Subs, v \in ValuesOf(kind) : made_on_next(a, v)
    \/ \E a \in Subs, e \in Errors : made_on_error(a, e)
    \/ \E a \in Subs : made_on_completed(a)

SpecFactory == InitFactory /\ [][NextFactory]_vars

\* ------------------------------------------------- the unattached operator
\* An operator of any class is constructed and a source is handed its
\* handlers directly, source.subscribe(on_next=op.on_next, on_error=op.on_error,
\* on_completed=op.on_completed): the handlers run while self.observer is still
\* None.  Later the operator may be subscribed through (subscribe).
source_subscribe(s) ==
    /\ observer = None /\ s = 1 /\ up[s] = "idle"
    /\ up' = [up EXCEPT ![s] = "active"]
    /\ handle' = [handle EXCEPT ![s] = s]
    /\ UNCHANGED <<config, stages, made, observer, fields, clock, trace>>

InitUnattached == (Init \/ InitBasis \/ InitStateful) /\ cfg = DefaultCfg

NextUnattached ==
    \/ \E s \in Subs : source_subscribe(s)
    \/ \E s \in Subs : subscribe(s)
    \/ \E s \in Subs, v \in ValuesOf(kind) : LoggingOperator_on_next(s, v)
    \/ \E s \in Subs, e \in Errors : LoggingOperator_on_error(s, e)
    \/ \E s \in Subs : LoggingOperator_on_completed(s)
    \/ \E s \in Subs, v \in ValuesOf(kind) : MarbleLogger_on_next(s, v)
    \/ \E s \in Subs, e \in Errors : MarbleLogger_on_error(s, e)
    \/ \E s \in Subs : MarbleLogger_on_completed(s)
    \/ \E s \in Subs, v \in ValuesOf(kind) : ContextualLogger_on_next(s, v)
    \/ \E s \in Subs, e \in Errors : ContextualLogger_on_error(s, e)
    \/ \E s \in Subs : ContextualLogger_on_completed(s)
    \/ \E s \in Subs, v \in ValuesOf(kind) : RichLoggerOperator_on_next(s, v)
    \/ \E s \in Subs, e \in Errors : RichLoggerOperator_on_error(s, e)
    \/ \E s \in Subs : RichLoggerOperator_on_completed(s)
    \/ \E s \in Subs, v \in ValuesOf(kind) : PerformanceLogger_on_next(s, v)
    \/ \E s \in Subs, e \in Errors : PerformanceLogger_on_error(s, e)
    \/ \E s \in Subs : PerformanceLogger_on_completed(s)
    \/ \E s \in Subs, v \in ValuesOf(kind) : ConditionalLogger_on_next(s, v)
    \/ \E s \in Subs, e \in Errors : ConditionalLogger_on_error(s, e)
    \/ \E s \in Subs : ConditionalLogger_on_completed(s)
    \/ \E s \in Subs, v \in ValuesOf(kind) : SimpleOperator_on_next(s, v)
    \/ \E s \in Subs, v \in ValuesOf(kind) : FilteringOperator_on_next(s, v)
    \/ \E s \in Subs, e \in Errors : BaseOperator_on_error(s, e)
    \/ \E s \in Subs : BaseOperator_on_completed(s)
    \/ \E s \in Subs, v \in ValuesOf(kind) : StatefulOperator_on_next(s, v)
    \/ \E s \in Subs, e \in Errors : StatefulOperator_on_error(s, e)
    \/ \E s \in Subs : StatefulOperator_on_completed(s)

SpecUnattached == InitUnattached /\ [][NextUnattached]_vars

\* ------------------------------------------------ a consumer that raises
\* SimpleOperator / FilteringOperator forwarding to a consumer whose on_next
\* may raise (r): the call self.observer.on_next(...) is inside the try block
\* of on_next, so the except branch runs and calls self.observer.on_error(e).
ConsumerError == "RuntimeError"

\* the consumer's on_next raised exc
Thrown(exc) == [ev |-> "thrown", exc |-> exc]

\* (mutant) a try block around the function call only: the consumer's
\* exception leaves the handler
try_forward_uncaught(obs, msgs, r) ==
    IF msgs = <<>> THEN <<>>
    ELSE <<Deliver(obs, msgs[1].note, msgs[1].val, msgs[1].err)>>
         \o (IF r /\ msgs[1].note = "next"
             THEN <<Thrown(ConsumerError), Raise(ConsumerError)>>
             ELSE <<>>)

\* the calls on self.observer inside try / except Exception as e
try_forward(obs, msgs, r) ==
    IF msgs = <<>> THEN <<>>
    ELSE <<Deliver(obs, msgs[1].note, msgs[1].val, msgs[1].err)>>
         \o (IF r /\ msgs[1].note = "next"
             THEN <<Thrown(ConsumerError),
                    Deliver(obs, "error", NoValue, ConsumerError)>>
             ELSE <<>>)

SimpleOperator_on_next_raising(s, v, r) ==
    /\ kind = "SimpleOperator" /\ MayEmit(s)
    /\ LET out == try_forward(observer,
                      SimpleOperator_sends(observer, cfg.transform_func, v), r)
       IN  /\ trace' = trace \o <<Recv(s, "next", v, "")>> \o out
           /\ AfterHandler(s, out)
    /\ UNCHANGED <<config, wiring, observer, fields, clock>>

FilteringOperator_on_next_raising(s, v, r) ==
    /\ kind = "FilteringOperator" /\ MayEmit(s)
    /\ LET out == try_forward(observer,
                      FilteringOperator_sends(observer, cfg.predicate, v), r)
       IN  /\ trace' = trace \o <<Recv(s, "next", v, "")>> \o out
           /\ AfterHandler(s, out)
    /\ UNCHANGED <<config, wiring, observer, fields, clock>>

NextRaising ==
    \/ \E s \in Subs : subscribe(s)
    \/ \E s \in Subs, v \in ValuesOf(kind), r \in BOOLEAN :
          SimpleOperator_on_next_raising(s, v, r)
    \/ \E s \in Subs, v \in ValuesOf(kind), r \in BOOLEAN :
          FilteringOperator_on_next_raising(s, v, r)
    \/ \E s \in Subs, e \in Errors : BaseOperator_on_error(s, e)
    \/ \E s \in Subs : BaseOperator_on_completed(s)

SpecRaising == InitBasis /\ [][NextRaising]_vars

\* ------------------------------------------------- the closure-based debug
\* obs = source.pipe(debug(name, print_value)); every obs.subscribe(observer)
\* runs _debug's subscribe, whose handlers are closures over that observer;
\* nothing is kept on an object.  Subscriptions may overlap.
InitDebug ==
    /\ kind = "debug"
    /\ cfg \in { [print_value |-> b, logger_func |-> "debug"] : b \in BOOLEAN }
    /\ observer = None
    /\ count = 0
    /\ event_count = 0
    /\ total_count = 0
    /\ logged_count = 0
    /\ timeline = <<>>
    /\ clock = 1
    /\ start_time = None
    /\ last_time = None
    /\ item_times = <<>>
    /\ up = [s \in Subs |-> "idle"]
    /\ stages = <<>>
    /\ handle = [s \in Subs |-> None]
    /\ made = NothingMade
    /\ trace = <<>>

\* subscribe(observer, scheduler): return source.subscribe(on_next=on_next, ...)
debug_subscribe(s) ==
    /\ MayOverlap(s)
    /\ up' = [up EXCEPT ![s] = "active"]
    /\ handle' = [handle EXCEPT ![s] = s]
    /\ UNCHANGED <<config, stages, made, observer, fields, clock, trace>>

\* (mutant) on_next that prints the value whatever print_value says
debug_on_next_prints_value(s, v) ==
    /\ MayEmit(s)
    /\ trace' = trace \o <<Recv(s, "next", v, ""),
                           Log(cfg.logger_func, "on_next", None, 0, PyStr(v), ""),
                           Deliver(s, "next", v, "")>>
    /\ UNCHANGED <<config, wiring, observer, fields, clock, up>>

\* on_next of subscription s: the closure's observer is consumer s
debug_on_next(s, v) ==
    /\ MayEmit(s)
    /\ trace' = trace \o <<Recv(s, "next", v, ""),
                           Log(cfg.logger_func, "on_next", None, 0,
                               IF cfg.print_value THEN PyStr(v) ELSE <<>>, ""),
                           Deliver(s, "next", v, "")>>
    /\ UNCHANGED <<config, wiring, observer, fields, clock, up>>

debug_on_error(s, e) ==
    /\ Active(s)
    /\ trace' = trace \o <<Recv(s, "error", NoValue, e),
                           Log(cfg.logger_func, "on_error", None, 0, <<>>, e),
                           Deliver(s, "error", NoValue, e)>>
    /\ AfterTerminal(s)
    /\ UNCHANGED <<config, wiring, observer, fields, clock>>

debug_on_completed(s) ==
    /\ Active(s)
    /\ trace' = trace \o <<Recv(s, "completed", NoValue, ""),
                           Log(cfg.logger_func, "on_completed", None, 0, <<>>, ""),
                           Deliver(s, "completed", NoValue, "")>>
    /\ AfterTerminal(s)
    /\ UNCHANGED <<config, wiring, observer, fields, clock>>

NextDebug ==
    \/ \E s \in Subs : debug_subscribe(s)
    \/ \E s \in Subs, v \in ValuesOf(kind) : debug_on_next(s, v)
    \/ \E s \in Subs, e \in Errors : debug_on_error(s, e)
    \/ \E s \in Subs : debug_on_completed(s)

SpecDebug == InitDebug /\ [][NextDebug]_vars

\* ==================================================================== claims
\* what consumer c was sent, what the upstream of subscription s delivered
Delivered(c) == SelectSeq(trace, LAMBDA r : r.ev = "deliver" /\ r.sub = c)
ReceivedOf(s) == SelectSeq(trace, LAMBDA r : r.ev = "recv" /\ r.sub = s)

\* the values of the value notifications of a sequence, in order
NextValues(seq) ==
    LET nexts == SelectSeq(seq, LAMBDA r : r.note = "next")
    IN  [i \in 1..Len(nexts) |-> nexts[i].val]

\* the errors of the error notifications of a sequence, in order
ErrorsOf(seq) ==
    LET errs == SelectSeq(seq, LAMBDA r : r.note = "error")
    IN  [i \in 1..Len(errs) |-> errs[i].err]

IsTerminal(r) == r.note \in {"error", "completed"}

\* the number of value notifications received before position i of the trace
ValuesBefore(i) ==
    Cardinality({ j \in 1..(i - 1) : trace[j].ev = "recv" /\ trace[j].note = "next" })

LogAt(i, what) == trace[i].ev = "log" /\ trace[i].what = what

\* C1: identity passthrough: for each of the six logging operators, the values
\* sent to the consumer of a subscription are the values its upstream
\* delivered: same length, same order, same values.
C1_IdentityPassthrough ==
    \A s \in Subs : NextValues(Delivered(s)) = NextValues(ReceivedOf(s))

\* C2: a consumer is sent at most one terminal notification (error or
\* completion), and nothing after it.
C2_AtMostOneTerminal ==
    \A c \in Subs :
        LET d == Delivered(c)
        IN  \A i \in 1..Len(d) : IsTerminal(d[i]) => i = Len(d)

\* C2 witness: a consumer was sent values and then its terminal notification.
C2_Witness ==
    \E c \in Subs :
        LET d == Delivered(c)
        IN  /\ Len(d) >= 3
            /\ IsTerminal(d[Len(d)])
            /\ d[1].note = "next"

\* C3: an upstream error is never swallowed: the errors sent to the consumer of
\* a subscription are exactly the errors its upstream delivered (one error
\* notification sent per error received, carrying the same error).
C3_ErrorNeverSwallowed ==
    \A s \in Subs :
        /\ ErrorsOf(Delivered(s)) = ErrorsOf(ReceivedOf(s))
        /\ (up[s] = "done" /\ ErrorsOf(ReceivedOf(s)) # <<>>)
              => Delivered(s) # <<>> /\ Delivered(s)[Len(Delivered(s))].note = "error"

\* C4: LoggingOperator with a value_formatter that raises: the failure stays
\* inside the operator: no exception leaves a handler, every value received is
\* sent on unchanged, and no error is sent that the upstream did not deliver.
C4_FormatterFailureCaught ==
    (kind = "LoggingOperator" /\ cfg.value_formatter = "custom") =>
        /\ ~Raised(trace)
        /\ \A s \in Subs :
              /\ NextValues(Delivered(s)) = NextValues(ReceivedOf(s))
              /\ ErrorsOf(Delivered(s)) = ErrorsOf(ReceivedOf(s))

\* C5: after PerformanceLogger has forwarded a terminal notification its state
\* is its initial state: count 0, no intervals, both timestamps unset.
C5_ResetAfterTerminal ==
    (/\ kind = "PerformanceLogger"
     /\ trace # <<>>
     /\ trace[Len(trace)].ev = "deliver"
     /\ IsTerminal(trace[Len(trace)]))
        => /\ count = 0
           /\ item_times = <<>>
           /\ start_time = None
           /\ last_time = None

\* C6: LoggingOperator: the completion record reports the number of values
\* received, whatever the log_values and log_errors flags.
C6_CompletionReportsCount ==
    kind = "LoggingOperator" =>
        \A i \in 1..Len(trace) :
            LogAt(i, "completed") => trace[i].n = ValuesBefore(i)

\* C7: a subscription starts from the operator's initial state: when the
\* observable is subscribed again after its first subscription terminated, the
\* counters are 0 again, so they count only the new subscription's values.
C7_NoStateLeak ==
    \A s \in Subs :
        (/\ up[s] = "active" /\ ReceivedOf(s) = <<>>
         /\ \A r \in Subs : r < s => up[r] = "done"
         /\ ~Raised(trace))
            => /\ count = 0
               /\ event_count = 0
               /\ total_count = 0
               /\ logged_count = 0

\* C8: MarbleLogger of width W: every rendered timeline has exactly W
\* characters before the suffix.
C8_TimelineHasWidthChars ==
    kind = "MarbleLogger" =>
        \A i \in 1..Len(trace) :
            LogAt(i, "marble") => Len(trace[i].text) = cfg.width

\* the symbol of the K-th recorded event
SymbolOfEvent(K) == Symbol(timeline[K])

\* C9 as stated: after K >= W events, the cell at position (K-1) mod W of the
\* line rendered for the K-th event holds the symbol of the K-th event.
C9_MostRecentAtKMinus1ModW ==
    kind = "MarbleLogger" =>
        \A i \in 1..Len(trace) :
            (LogAt(i, "marble") /\ trace[i].n >= cfg.width /\ trace[i].n >= 1)
                => trace[i].cells[((trace[i].n - 1) % cfg.width) + 1]
                      = SymbolOfEvent(trace[i].n)

\* C9 amended: after K >= W events, the symbol of the K-th event is in the last
\* cell, W - 1, of the line rendered for it, and the line ends with it.
C9_MostRecentInLastCell ==
    kind = "MarbleLogger" =>
        \A i \in 1..Len(trace) :
            (LogAt(i, "marble") /\ trace[i].n >= cfg.width /\ trace[i].n >= 1)
                => LET sym  == SymbolOfEvent(trace[i].n)
                       line == trace[i].text
                   IN  /\ trace[i].cells[cfg.width] = sym
                       /\ Len(line) >= Len(sym)
                       /\ SubSeq(line, Len(line) - Len(sym) + 1, Len(line)) = sym

\* C9 witness: more events than the width: the window has slid, and the oldest
\* shown event differs from the most recent.
C9_Witness ==
    /\ kind = "MarbleLogger"
    /\ cfg.width >= 2
    /\ Len(timeline) > cfg.width
    /\ trace[Len(trace) - 1].ev = "log"
    /\ trace[Len(trace) - 1].n = Len(timeline)
    /\ trace[Len(trace) - 1].cells[1] # SymbolOfEvent(Len(timeline))

\* the value predicate holds for v (an absent predicate logs every value)
Holds(v) == cfg.value_predicate = "None" \/ (IsNumber(v) /\ v.n > 0)

\* the number of values received before position i for which the predicate held
HeldBefore(i) ==
    Cardinality({ j \in 1..(i - 1) : /\ trace[j].ev = "recv"
                                     /\ trace[j].note = "next"
                                     /\ Holds(trace[j].val) })

\* C10: ConditionalLogger: total_count is the number of values received,
\* logged_count the number of those for which the predicate held,
\* logged_count <= total_count, and the completion summary reports these two.
C10_ConditionalCounts ==
    kind = "ConditionalLogger" =>
        /\ total_count = ValuesBefore(Len(trace) + 1)
        /\ logged_count = HeldBefore(Len(trace) + 1)
        /\ logged_count <= total_count
        /\ \A i \in 1..Len(trace) :
              LogAt(i, "summary") => /\ trace[i].n = HeldBefore(i)
                                     /\ trace[i].m = ValuesBefore(i)

\* C10 witness: a predicate that held for some values and not for others, and a
\* summary emitted on completion.
C10_Witness ==
    /\ kind = "ConditionalLogger"
    /\ cfg.value_predicate = "positive"
    /\ 0 < logged_count /\ logged_count < total_count
    /\ \E i \in 1..Len(trace) : LogAt(i, "summary") /\ trace[i].m = total_count

\* C11: ConditionalLogger with a predicate that raises: the failure stays inside
\* the operator: no exception leaves on_next or on_error, every value received
\* is sent on unchanged, and every upstream error is forwarded.
C11_PredicateFailureHandled ==
    (kind = "ConditionalLogger"
        /\ (cfg.value_predicate = "positive" \/ cfg.error_predicate = "raising")) =>
        /\ \A i \in 1..Len(trace) : trace[i].ev # "raise"
        /\ \A s \in Subs :
              /\ Len(NextValues(Delivered(s))) = Len(NextValues(ReceivedOf(s)))
              /\ Len(ErrorsOf(Delivered(s))) = Len(ErrorsOf(ReceivedOf(s)))

\* the last entry of the trace written by the handler call recorded at entry i
HandlerEnd(i) ==
    CHOOSE k \in i..Len(trace) :
        /\ \A j \in (i + 1)..k : trace[j].ev \notin {"recv", "dispose"}
        /\ k = Len(trace) \/ trace[k + 1].ev \in {"recv", "dispose"}

\* what the handler call recorded at entry i sent to the operator's observer
SentAt(i) ==
    SelectSeq(SubSeq(trace, i + 1, HandlerEnd(i)), LAMBDA r : r.ev = "deliver")

IsValueRecv(i) == trace[i].ev = "recv" /\ trace[i].note = "next"

\* C12: SimpleOperator with function f: for each upstream value v on which f
\* returns, exactly f(v) is sent downstream (one result per value, in upstream
\* order); when f raises on v no value is sent for v, the exception is sent
\* downstream as an error notification, and no exception leaves on_next.
C12_SimpleOperatorMaps ==
    kind = "SimpleOperator" =>
        /\ \A i \in 1..Len(trace) : trace[i].ev # "raise"
        /\ \A i \in 1..Len(trace) : IsValueRecv(i) =>
              SentAt(i) =
                 IF TransformRaises(cfg.transform_func, trace[i].val)
                 THEN <<Deliver(trace[i].sub, "error", NoValue, "TypeError")>>
                 ELSE <<Deliver(trace[i].sub, "next",
                                Transform(cfg.transform_func, trace[i].val), "")>>

\* C12 witness: one subscription was sent 14 for 7, "abab" for "ab", and an
\* error for None.
C12_Witness ==
    /\ kind = "SimpleOperator"
    /\ \E s \in Subs :
          /\ NextValues(ReceivedOf(s)) = <<VInt(7), VStr(<<"a", "b">>), VNone>>
          /\ NextValues(Delivered(s)) = <<VInt(14), VStr(<<"a", "b", "a", "b">>)>>
          /\ ErrorsOf(Delivered(s)) = <<"TypeError">>

\* C13: FilteringOperator with predicate p: the values sent downstream are
\* exactly the upstream values on which p returned true, unchanged and in
\* upstream order; when p raises on a value, that value is not sent and the
\* exception is sent downstream as an error notification; none leaves on_next.
C13_FilteringOperatorFilters ==
    kind = "FilteringOperator" =>
        /\ \A i \in 1..Len(trace) : trace[i].ev # "raise"
        /\ \A i \in 1..Len(trace) : IsValueRecv(i) =>
              SentAt(i) =
                 IF PredicateRaises(cfg.predicate, trace[i].val)
                 THEN <<Deliver(trace[i].sub, "error", NoValue, "TypeError")>>
                 ELSE IF Predicate(cfg.predicate, trace[i].val)
                      THEN <<Deliver(trace[i].sub, "next", trace[i].val, "")>>
                      ELSE <<>>

\* C13 witness: of -3, 7 and "ab" one subscription was sent 7 and, for "ab",
\* an error.
C13_Witness ==
    /\ kind = "FilteringOperator"
    /\ \E s \in Subs :
          /\ NextValues(ReceivedOf(s)) = <<VInt(-3), VInt(7), VStr(<<"a", "b">>)>>
          /\ NextValues(Delivered(s)) = <<VInt(7)>>
          /\ ErrorsOf(Delivered(s)) = <<"TypeError">>

\* C14: once SimpleOperator or FilteringOperator has sent downstream the error
\* of a failing function or predicate, it sends nothing more to that consumer,
\* whatever its upstream delivers afterwards.
C14_TerminatedAfterOwnError ==
    kind \in BasisKinds =>
        \A i \in 1..Len(trace) :
            (IsValueRecv(i) /\ SentAt(i) # <<>> /\ SentAt(i)[1].note = "error") =>
                \A j \in (i + 2)..Len(trace) :
                    ~(trace[j].ev = "deliver" /\ trace[j].sub = trace[i].sub)

\* what the consumer at the end of the chain of subscription c was sent
Finals(c) == SelectSeq(trace, LAMBDA r : r.ev = "final" /\ r.sub = c)

\* the log records of one kind, in order
Logs(what) == SelectSeq(trace, LAMBDA r : r.ev = "log" /\ r.what = what)

\* the doubles greater than 5 of a sequence of integer values, in order
RECURSIVE DoubledOver5(_)
DoubledOver5(vs) ==
    IF vs = <<>> THEN <<>>
    ELSE (IF 2 * Head(vs).n > 5 THEN <<VInt(2 * Head(vs).n)>> ELSE <<>>)
         \o DoubledOver5(Tail(vs))

\* C15: N values, then completion, through LoggingOperator (default formatter),
\* a doubling transform and a filter keeping results > 5: the final consumer
\* is sent exactly the doubled values greater than 5, in order, and then the
\* completion; the logger emitted N value records numbered 1..N and one
\* completion record reporting N.
C15_PipelineScenario ==
    (stages # <<>> /\ up[1] = "done" /\ ErrorsOf(ReceivedOf(1)) = <<>>) =>
        LET vs == NextValues(ReceivedOf(1))
            N  == Len(vs)
        IN  /\ NextValues(Finals(1)) = DoubledOver5(vs)
            /\ Len(Finals(1)) = Len(DoubledOver5(vs)) + 1
            /\ Finals(1)[Len(Finals(1))].note = "completed"
            /\ [i \in 1..Len(Logs("value")) |-> Logs("value")[i].n] = [i \in 1..N |-> i]
            /\ Len(Logs("completed")) = 1
            /\ Logs("completed")[1].n = N

\* C15 witness: for 1, 2, 3, 4, 5 the consumer was sent 6, 8, 10 and the
\* completion record reports 5.
C15_Witness ==
    /\ stages # <<>> /\ up[1] = "done"
    /\ NextValues(ReceivedOf(1)) = <<VInt(1), VInt(2), VInt(3), VInt(4), VInt(5)>>
    /\ NextValues(Finals(1)) = <<VInt(6), VInt(8), VInt(10)>>
    /\ Logs("completed") # <<>> /\ Logs("completed")[1].n = 5

\* C16: error in mid-stream: when the upstream of a subscription delivered k
\* values and then an error, the consumer was sent exactly those k values in
\* order, then exactly one error notification carrying that error, and
\* nothing else (no completion).
C16_ErrorMidStream ==
    \A s \in Subs :
        LET r == ReceivedOf(s)
        IN  (r # <<>> /\ r[Len(r)].note = "error") =>
                Delivered(s) =
                    [i \in 1..Len(r) |-> Deliver(s, r[i].note, r[i].val, r[i].err)]

\* the notification recorded at entry i must be passed on (a FilteringOperator
\* passes on no value its predicate rejected)
Due(i) ==
    ~(/\ kind = "FilteringOperator" /\ trace[i].note = "next"
      /\ ~PredicateRaises(cfg.predicate, trace[i].val)
      /\ ~Predicate(cfg.predicate, trace[i].val))

\* C17: subscribe records the consumer as the forwarding target before it
\* subscribes to the upstream: every notification the upstream delivers
\* during its own subscribe call is passed on to that consumer, none is lost
\* and none raises; the handle given to the consumer is the upstream's
\* disposable.
C17_TargetRecordedBeforeSubscribe ==
    kind \in BasisKinds =>
        /\ \A i \in 1..Len(trace) : trace[i].ev # "raise"
        /\ \A i \in 1..Len(trace) :
              (trace[i].ev = "recv" /\ trace[i].sync /\ Due(i)) =>
                  /\ Len(SentAt(i)) = 1
                  /\ SentAt(i)[1].sub = trace[i].sub
        /\ \A s \in Subs : handle[s] # None => handle[s] = s

\* C17 witness: a value and the completion were delivered during subscribe and
\* passed on to the consumer, which was then given the upstream's disposable.
C17_Witness ==
    /\ kind \in BasisKinds
    /\ \E s \in Subs :
          /\ handle[s] = s
          /\ Len(ReceivedOf(s)) >= 2
          /\ \A i \in 1..Len(ReceivedOf(s)) : ReceivedOf(s)[i].sync
          /\ Len(Delivered(s)) = Len(ReceivedOf(s))
          /\ Delivered(s)[Len(Delivered(s))].note = "completed"

\* C18: cancellation: after the consumer disposed the handle it was given
\* nothing more is sent to it, the dispose itself sends no terminal
\* notification, and the handle is the upstream's own disposable (the
\* operator wraps nothing around it).
C18_NothingAfterDispose ==
    kind \in BasisKinds =>
        /\ \A i \in 1..Len(trace) : trace[i].ev = "dispose" =>
              \A j \in (i + 1)..Len(trace) :
                  ~(trace[j].ev = "deliver" /\ trace[j].sub = trace[i].sub)
        /\ \A s \in Subs : handle[s] \in {None, s}

\* C18 witness: a consumer that had been sent a value disposed its handle
\* before any terminal notification, and a later subscription went on.
C18_Witness ==
    /\ kind \in BasisKinds
    /\ \E s \in Subs, i \in 1..Len(trace) :
          /\ trace[i] = Disposed(s)
          /\ up[s] = "disposed"
          /\ Delivered(s) # <<>>
          /\ \A k \in 1..Len(Delivered(s)) : ~IsTerminal(Delivered(s)[k])
          /\ i < Len(trace)

\* C19: for every logging operator and every notification, the log record of
\* the notification is emitted before the notification is sent downstream,
\* and both before the next upstream notification is handled: within one
\* handler call no log record follows the forward.
C19_LogBeforeDeliver ==
    kind \in Kinds =>
        \A i \in 1..Len(trace) : trace[i].ev = "recv" =>
            \A j \in (i + 1)..HandlerEnd(i), k \in (i + 1)..HandlerEnd(i) :
                (trace[j].ev = "deliver" /\ trace[k].ev = "log") => k < j

\* C19 witness: two notifications in a row were each logged and then forwarded.
C19_Witness ==
    /\ kind \in Kinds
    /\ \E i \in 1..Len(trace) :
          /\ i + 5 <= Len(trace)
          /\ trace[i].ev = "recv"     /\ trace[i + 3].ev = "recv"
          /\ trace[i + 1].ev = "log"  /\ trace[i + 4].ev = "log"
          /\ trace[i + 2].ev = "deliver" /\ trace[i + 5].ev = "deliver"

\* C20: the configuration is immutable after construction: no step of any
\* operator (on_next, on_error, on_completed, reset_state, subscribe) changes
\* the class or a configuration field.
C20_ConfigImmutable == [][cfg' = cfg /\ kind' = kind]_vars

\* C20 witness: a PerformanceLogger with log_interval 2 handled values and a
\* terminal notification, was reset, and still has its log interval.
C20_Witness ==
    /\ kind = "PerformanceLogger" /\ cfg.log_interval = 2
    /\ \E s \in Subs : up[s] = "done" /\ Len(NextValues(ReceivedOf(s))) >= 2
    /\ count = 0 /\ start_time = None /\ observer # None
    /\ trace[Len(trace)] = Reset

\* the handler call recorded at entry i handed the logger a record of this kind
LoggedAt(i, what) ==
    \E j \in (i + 1)..HandlerEnd(i) : trace[j].ev = "log" /\ trace[j].what = what

\* the handler call recorded at entry i passed its notification on, unchanged
\* and once
ForwardedAt(i) ==
    SentAt(i) = <<Deliver(trace[i].sub, trace[i].note, trace[i].val, trace[i].err)>>

\* the log record kind that belongs to a notification
RecordOf(note) ==
    CASE note = "next" -> "value" [] note = "error" -> "error" [] OTHER -> "completed"

\* the enable flag that belongs to a notification
FlagOf(note) ==
    CASE note = "next" -> cfg.log_values [] note = "error" -> cfg.log_errors
      [] OTHER -> cfg.log_completion

\* C21: the three enable flags of LoggingOperator act independently: a value
\* record is emitted for a value iff log_values is set, an error record iff
\* log_errors, a completion record iff log_completion, whatever the other two
\* flags are; under all eight combinations the notification is forwarded.
C21_FlagsIndependent ==
    kind = "LoggingOperator" =>
        \A i \in 1..Len(trace) : trace[i].ev = "recv" =>
            /\ LoggedAt(i, RecordOf(trace[i].note)) <=> FlagOf(trace[i].note)
            /\ \A w \in {"value", "error", "completed"} :
                  LoggedAt(i, w) => w = RecordOf(trace[i].note)
            /\ ForwardedAt(i)

\* the entries of the trace written by the handler call recorded at entry i
WrittenAt(i) == SubSeq(trace, i + 1, HandlerEnd(i))

\* C22: a StatefulOperator subclass that keeps the inherited terminal
\* handlers: reset_state runs exactly once per terminal notification, after
\* the notification was forwarded, on the error and on the completion path,
\* and a value notification never runs it.
C22_ResetOncePerTerminal ==
    kind = "StatefulOperator" =>
        \A i \in 1..Len(trace) : trace[i].ev = "recv" =>
            IF IsTerminal(trace[i])
            THEN WrittenAt(i) =
                    <<Deliver(trace[i].sub, trace[i].note, NoValue, trace[i].err),
                      Reset>>
            ELSE \A j \in 1..Len(WrittenAt(i)) : WrittenAt(i)[j] # Reset

\* C22 witness: one subscription ended with an error and the next with a
\* completion, each after a value, and the state is clear.
C22_Witness ==
    /\ kind = "StatefulOperator" /\ count = 0
    /\ \E s \in Subs, r \in Subs :
          /\ Len(Delivered(s)) = 2 /\ Delivered(s)[2].note = "error"
          /\ Len(Delivered(r)) = 2 /\ Delivered(r)[2].note = "completed"
    /\ trace[Len(trace)] = Reset

\* the position of the last reset_state call in the trace (0: none)
LastReset ==
    IF \E i \in 1..Len(trace) : trace[i] = Reset
    THEN CHOOSE i \in 1..Len(trace) :
            trace[i] = Reset /\ \A j \in (i + 1)..Len(trace) : trace[j] # Reset
    ELSE 0

\* the number of values received since the last reset_state call
ValuesSinceReset ==
    Len(SelectSeq(SubSeq(trace, LastReset + 1, Len(trace)),
                  LAMBDA r : r.ev = "recv" /\ r.note = "next"))

\* C23: PerformanceLogger.reset_state, called in any reachable state, leaves
\* count = 0, the interval list empty and both timestamps unset, changes
\* nothing else (log interval, forwarding target) and is idempotent; the
\* value received after a reset is treated as a first value: it sets the start
\* timestamp and appends no interval.
C23_ResetState ==
    kind = "PerformanceLogger" =>
        /\ LET after == reset_state(Attrs)
           IN  /\ after.count = 0 /\ after.item_times = <<>>
               /\ after.start_time = None /\ after.last_time = None
               /\ after.log_interval = cfg.log_interval
               /\ after.observer = observer
               /\ reset_state(after) = after
        /\ LastReset > 0 =>
              /\ count = ValuesSinceReset
              /\ count = 0 => start_time = None /\ item_times = <<>>
              /\ count >= 1 => start_time # None /\ Len(item_times) = count - 1

\* C23 witness: after three values and a completion the instance was reset
\* and then received one value on the next subscription.
C23_Witness ==
    /\ kind = "PerformanceLogger"
    /\ LastReset > 4
    /\ ValuesSinceReset = 1
    /\ count = 1 /\ item_times = <<>> /\ start_time = clock

\* C24: PerformanceLogger invariant: the start timestamp is unset iff
\* count = 0; with count >= 1 the interval list has count - 1 entries, all
\* >= 0 under the non-decreasing clock, the entry appended by a value being
\* the time since the value before it, and the last timestamp is the arrival
\* time of the most recent value.
C24_PerformanceInvariant ==
    /\ [](kind = "PerformanceLogger" =>
            /\ start_time = None <=> count = 0
            /\ count >= 1 =>
                  /\ Len(item_times) = count - 1
                  /\ \A i \in 1..Len(item_times) : item_times[i] >= 0
                  /\ last_time # None /\ last_time <= clock
                  /\ start_time <= last_time)
    /\ [][(kind = "PerformanceLogger" /\ count' = count + 1) =>
            /\ last_time' = clock
            /\ count = 0 => start_time' = clock /\ item_times' = <<>>
            /\ count >= 1 => /\ item_times' = Append(item_times, clock - last_time)
                             /\ start_time' = start_time]_vars

\* C24 witness: three values, the second one tick after the first, the third
\* with the second.
C24_Witness ==
    /\ kind = "PerformanceLogger"
    /\ count = 3 /\ item_times = <<1, 0>> /\ last_time = start_time + 1

\* the intervals of the instance are all the same
FixedDelay == \A i \in 1..Len(item_times) : item_times[i] = item_times[1]

\* the first subscription of a fresh instance has ended and nothing else
\* has happened to the instance
FirstRunOver ==
    /\ up[1] = "done" /\ \A s \in Subs \ {1} : up[s] = "idle"
    /\ LastReset = 0

\* C25: N >= 1 values delivered at a fixed delay d and then a terminal
\* notification: the final statistics record reports N events and mean = min
\* = max interval = d (the mean as sum over number: sum = d * number); with
\* a single value the three interval statistics are reported as 0.
C25_FixedDelayStatistics ==
    (kind = "PerformanceLogger" /\ FirstRunOver /\ FixedDelay
        /\ Len(NextValues(ReceivedOf(1))) >= 1) =>
        LET N   == Len(NextValues(ReceivedOf(1)))
            rec == trace[Len(trace) - 1]
        IN  /\ rec.ev = "log" /\ rec.what = "stats"
            /\ rec.n = N
            /\ IF N = 1
               THEN rec.sum = 0 /\ rec.len = 0 /\ rec.min = 0 /\ rec.max = 0
               ELSE /\ rec.len = N - 1
                    /\ rec.sum = item_times[1] * rec.len
                    /\ rec.min = item_times[1] /\ rec.max = item_times[1]

\* C25 witness: three values one tick apart, then the completion: 3 events,
\* the intervals sum to 2 over 2, min and max are 1.
C25_Witness ==
    /\ kind = "PerformanceLogger" /\ FirstRunOver
    /\ item_times = <<1, 1>>
    /\ trace[Len(trace) - 1].ev = "log"
    /\ trace[Len(trace) - 1].status = "COMPLETED"
    /\ trace[Len(trace) - 1].min = 1 /\ trace[Len(trace) - 1].sum = 2

\* the position of the last reset_state call before entry i (0: none)
ResetBefore(i) ==
    IF \E j \in 1..(i - 1) : trace[j] = Reset
    THEN CHOOSE j \in 1..(i - 1) :
            trace[j] = Reset /\ \A k \in (j + 1)..(i - 1) : trace[k] # Reset
    ELSE 0

\* the values the instance has counted when the handler call recorded at
\* entry i ends: those received since construction or the last reset_state
CountAt(i) ==
    Len(SelectSeq(SubSeq(trace, ResetBefore(i) + 1, i),
                  LAMBDA r : r.ev = "recv" /\ r.note = "next"))

\* what the handler call recorded at entry i logged and sent
DoneAt(i) == SelectSeq(WrittenAt(i), LAMBDA r : r.ev # "reset")

IsStats(r, status) == r.ev = "log" /\ r.what = "stats" /\ r.status = status

ProgressRecords == SelectSeq(trace, LAMBDA r : IsStats(r, "PROGRESS"))

IntervalSet == cfg.log_interval # None /\ cfg.log_interval # 0

\* C26: PerformanceLogger with log interval N >= 1 emits a PROGRESS record on
\* a value exactly when the count after that value is a multiple of N, before
\* the value is forwarded, so that after k values floor(k / N) PROGRESS
\* records have been emitted; with the interval unset or 0 it emits none.
C26_ProgressEveryNth ==
    kind = "PerformanceLogger" =>
        /\ \A i \in 1..Len(trace) : IsValueRecv(i) =>
              IF IntervalSet
              THEN IF CountAt(i) % cfg.log_interval = 0
                   THEN /\ Len(DoneAt(i)) = 2
                        /\ IsStats(DoneAt(i)[1], "PROGRESS")
                        /\ DoneAt(i)[1].n = CountAt(i)
                        /\ DoneAt(i)[2].ev = "deliver"
                   ELSE Len(DoneAt(i)) = 1 /\ DoneAt(i)[1].ev = "deliver"
              ELSE Len(DoneAt(i)) = 1 /\ DoneAt(i)[1].ev = "deliver"
        /\ IF IntervalSet
           THEN LastReset = 0 =>
                    Len(ProgressRecords) = CountAt(Len(trace)) \div cfg.log_interval
           ELSE ProgressRecords = <<>>

\* C26 witness: with log interval 2, three values gave one PROGRESS record,
\* emitted for the second value.
C26_Witness ==
    /\ kind = "PerformanceLogger" /\ cfg.log_interval = 2
    /\ LastReset = 0 /\ count = 3
    /\ Len(ProgressRecords) = 1 /\ ProgressRecords[1].n = 2

TagOf(note) == IF note = "error" THEN "ERROR" ELSE "COMPLETED"

\* the handler call recorded at entry i emitted one statistics record with the
\* tag of its terminal notification and then forwarded the notification
FinalStatsAt(i) ==
    /\ Len(DoneAt(i)) = 2
    /\ IsStats(DoneAt(i)[1], TagOf(trace[i].note))
    /\ DoneAt(i)[2] = Deliver(trace[i].sub, trace[i].note, NoValue, trace[i].err)

\* C27: on completion and on error PerformanceLogger emits exactly
\* one final statistics record, tagged COMPLETED or ERROR, before it forwards
\* the terminal notification, for every upstream sequence, also one without
\* any value.
C27_FinalStatsAlways ==
    kind = "PerformanceLogger" =>
        \A i \in 1..Len(trace) :
            (trace[i].ev = "recv" /\ IsTerminal(trace[i])) => FinalStatsAt(i)

\* the step appends the call of a handler with this notification
Handles(note) ==
    /\ Len(trace') > Len(trace)
    /\ trace'[Len(trace) + 1].ev = "recv" /\ trace'[Len(trace) + 1].note = note

\* C28: ConditionalLogger on an upstream error: an error record is emitted
\* iff the error predicate is absent or returns true for the error; the
\* counters are unchanged by the error; no completion summary (and no value
\* record) is emitted on the error path.
C28_ConditionalError ==
    /\ [](kind = "ConditionalLogger" =>
            \A i \in 1..Len(trace) :
                (trace[i].ev = "recv" /\ trace[i].note = "error") =>
                    /\ LoggedAt(i, "error") <=>
                          \/ cfg.error_predicate = "None"
                          \/ /\ ~ErrorPredicateRaises(cfg.error_predicate, trace[i].err)
                             /\ ErrorPredicate(cfg.error_predicate, trace[i].err)
                    /\ ~LoggedAt(i, "summary") /\ ~LoggedAt(i, "value"))
    /\ [][(kind = "ConditionalLogger" /\ Handles("error")) =>
            total_count' = total_count /\ logged_count' = logged_count]_vars

\* C28 witness: with a predicate that answers true, an error after a value
\* was logged and the counters still stand at 1.
C28_Witness ==
    /\ kind = "ConditionalLogger" /\ cfg.error_predicate = "always"
    /\ total_count = 1 /\ logged_count = 1
    /\ \E i \in 1..Len(trace) :
          trace[i].ev = "recv" /\ trace[i].note = "error" /\ LoggedAt(i, "error")

\* C29: ConditionalLogger on completion: a summary record is emitted iff
\* summarize is set and at least one value was received before; the
\* completion is forwarded exactly once in all four cases, after the summary
\* when there is one.
C29_ConditionalCompletion ==
    kind = "ConditionalLogger" =>
        \A i \in 1..Len(trace) :
            (trace[i].ev = "recv" /\ trace[i].note = "completed") =>
                LET w == WrittenAt(i)
                IN  IF cfg.summarize /\ ValuesBefore(i) > 0
                    THEN /\ Len(w) = 2
                         /\ w[1].ev = "log" /\ w[1].what = "summary"
                         /\ w[1].m = ValuesBefore(i)
                         /\ w[2] = Deliver(trace[i].sub, "completed", NoValue, "")
                    ELSE w = <<Deliver(trace[i].sub, "completed", NoValue, "")>>

\* C29 witness: with summarize set, one subscription completed without a
\* value and without a summary, the next after a value with a summary.
C29_Witness ==
    /\ kind = "ConditionalLogger" /\ cfg.summarize
    /\ \E i \in 1..Len(trace), j \in 1..Len(trace) :
          /\ i < j
          /\ trace[i].ev = "recv" /\ trace[i].note = "completed"
          /\ Len(WrittenAt(i)) = 1
          /\ trace[j].ev = "recv" /\ trace[j].note = "completed"
          /\ Len(WrittenAt(j)) = 2 /\ LoggedAt(j, "summary")

\* the timeline entry a notification is recorded as
EventOf(r) ==
    CASE r.note = "next"  -> MarbleEvent("N", r.val, "")
      [] r.note = "error" -> MarbleEvent("E", NoValue, r.err)
      [] OTHER            -> MarbleEvent("C", NoValue, "")

\* the number of events shown: min(K, W)
Shown(K) == IF K <= cfg.width THEN K ELSE cfg.width

CellOf(r) == r.cells[Shown(r.n)]

\* the ten digits
DigitChars == { Digit(d) : d \in 0..9 }

\* C31: MarbleLogger symbol choice: each recorded event renders as one symbol:
\* a number in [-9, 9] as that digit, a non-empty text as its first character
\* uppercased, any other value as the bullet, an error as X with the suffix
\* 'ERROR: <kind>', a completion as | with the suffix 'COMPLETED'; a terminal
\* event is recorded at most once and is the last entry of the timeline.
C31_SymbolChoice ==
    kind = "MarbleLogger" =>
        /\ \A i \in 1..Len(trace) : LogAt(i, "marble") /\ trace[i].n > 0 =>
              LET event == timeline[trace[i].n]
                  sym   == CellOf(trace[i])
              IN  /\ Len(sym) = 1
                  /\ CASE event.type = "E" ->
                            sym = <<"X">> /\ trace[i].suffix = "ERROR: " \o event.err
                       [] event.type = "C" ->
                            sym = <<"|">> /\ trace[i].suffix = "COMPLETED"
                       [] IsNumber(event.val) /\ InMarbleRange(event.val) ->
                            /\ sym[1] \in DigitChars
                            /\ PyInt(event.val) >= 0 =>
                                  sym = <<Digit(PyInt(event.val))>>
                       [] event.val.kind = "str" /\ event.val.s # <<>> ->
                            sym = <<Upper(event.val.s[1])>>
                       [] OTHER -> sym = <<Bullet>>
        /\ \A k \in 1..Len(timeline) :
              timeline[k].type \in {"E", "C"} => k = Len(timeline)

\* the counter of the two counting loggers
Counter == IF kind = "ContextualLogger" THEN event_count ELSE count

IsLog(i) == trace[i].ev = "log"

\* C32 (as stated): ContextualLogger and RichLoggerOperator: after k values the
\* counter equals k; the i-th value's record carries count i, and the error and
\* completion records carry the count of the values received, unincremented.
C32_EveryRecordCarriesCount ==
    kind \in {"ContextualLogger", "RichLoggerOperator"} =>
        /\ Counter = ValuesBefore(Len(trace) + 1)
        /\ \A i \in 1..Len(trace) : IsLog(i) => trace[i].n = ValuesBefore(i)

\* C32 (amended): after k values the counter of either class equals k, and
\* terminal notifications leave it as it is; every ContextualLogger record
\* carries the count (the i-th value's record i, a terminal record after k
\* values k); of the RichLoggerOperator records only the completion record
\* carries the count (k after k values), its value and error records carry none.
C32_Counters ==
    kind \in {"ContextualLogger", "RichLoggerOperator"} =>
        /\ Counter = ValuesBefore(Len(trace) + 1)
        /\ \A i \in 1..Len(trace) : IsLog(i) =>
              IF kind = "ContextualLogger" \/ trace[i].what = "completed"
              THEN trace[i].n = ValuesBefore(i)
              ELSE trace[i].n = None

\* C32 witness: a ContextualLogger that received two values and then an
\* error: the records carry 1, 2 and 2, and the counter is 2.
C32_Witness ==
    /\ kind = "ContextualLogger" /\ event_count = 2
    /\ \E i, j, k \in 1..Len(trace) :
          /\ i < j /\ j < k
          /\ LogAt(i, "value") /\ trace[i].n = 1
          /\ LogAt(j, "value") /\ trace[j].n = 2
          /\ LogAt(k, "error") /\ trace[k].n = 2

\* the digits of a text, in order
DigitsOf(s) == SelectSeq(s, LAMBDA c : c \in DigitChars)

\* the value whose record is at position i of the trace
ValueOf(i) == trace[i - 1].val

\* C33: LoggingOperator default formatter on a mapping or sequence with n > 5
\* entries: the text shows only the first 5 entries and ends with a suffix
\* that states the number of omitted entries, n - 5; with n <= 5 entries no
\* suffix is added.
C33_SuffixStatesOmitted ==
    \A i \in 2..Len(trace) : LogAt(i, "value") /\ IsContainer(ValueOf(i)) =>
        LET v     == ValueOf(i)
            n     == Len(v.items)
            text  == trace[i].text
            shown == PyStr([v EXCEPT !.items = FirstFive(v.items)])
        IN  IF n > 5
            THEN /\ Len(text) > Len(shown)
                 /\ SubSeq(text, 1, Len(shown)) = shown
                 /\ DigitsOf(SubSeq(text, Len(shown) + 1, Len(text)))
                       = NatStr(n - 5)
            ELSE Len(PyStr(v)) <= 100 => text = PyStr(v)

\* C34: LoggingOperator default formatter length bound: for every value that
\* is not summarized as a mapping or a sequence of more than 5 entries, the
\* formatted text has at most 100 characters: a text representation of more
\* than 100 characters becomes its first 97 characters followed by '...', one
\* of at most 100 characters is returned unchanged.
C34_AtMost100Chars ==
    \A i \in 2..Len(trace) :
        LogAt(i, "value") /\ ~(IsContainer(ValueOf(i)) /\ Len(ValueOf(i).items) > 5) =>
            LET s    == PyStr(ValueOf(i))
                text == trace[i].text
            IN  /\ Len(text) <= 100
                /\ text = IF Len(s) > 100
                          THEN SubSeq(s, 1, 97) \o <<".", ".", ".">>
                          ELSE s

\* the subscriptions made so far; they are made in the order 1, 2, ...
Subscribed == { s \in Subs : up[s] # "idle" }
LatestSubscribed == CHOOSE s \in Subscribed : \A r \in Subscribed : r <= s

LastOf(seq) == seq[Len(seq)]

\* C35: overlapping subscriptions through one operator instance: the later
\* subscribe replaces the single forwarding target; from then on every
\* notification from either upstream is delivered to the later consumer, the
\* earlier consumer receives nothing more (not even its terminal), and the
\* counter counts the values of both streams together.
C35_LaterSubscribeReplacesTarget ==
    /\ [](/\ Subscribed # {} => observer = LatestSubscribed
          /\ Counter = ValuesBefore(Len(trace) + 1))
    /\ [][/\ \A c \in Subs : c < observer' => Delivered(c)' = Delivered(c)
          /\ Len(Received') > Len(Received) =>
                /\ Len(Delivered(observer)') = Len(Delivered(observer)) + 1
                /\ LastOf(Delivered(observer)').note = LastOf(Received').note
                /\ LastOf(Delivered(observer)').val = LastOf(Received').val
                /\ LastOf(Delivered(observer)').err = LastOf(Received').err]_vars

\* C35 witness: both subscriptions running; the first upstream delivered a
\* value and its completion after the second subscribe, the second upstream a
\* value: all three went to consumer 2, consumer 1 received nothing, and the
\* counter is 2.
C35_Witness ==
    /\ up[1] = "done" /\ up[2] = "active" /\ observer = 2
    /\ Delivered(1) = <<>> /\ Len(Delivered(2)) = 3
    /\ Counter = 2
    /\ \E i, j, k \in 1..Len(trace) :
          /\ trace[i].ev = "recv" /\ trace[i].sub = 1 /\ trace[i].note = "next"
          /\ trace[j].ev = "recv" /\ trace[j].sub = 2 /\ trace[j].note = "next"
          /\ trace[k].ev = "recv" /\ trace[k].sub = 1
          /\ trace[k].note = "completed"

\* the observables built so far
Built == 1..Len(made.observables)

\* the subscription whose notification the entry at position i belongs to
OriginOf(i) ==
    LET j == CHOOSE j \in 1..i : /\ trace[j].ev = "recv"
                                 /\ \A k \in (j + 1)..i : trace[k].ev # "recv"
    IN  trace[j].sub

ValuesOfSub(a) == Len(NextValues(ReceivedOf(a)))

\* C36: a factory returned by create_operator constructs a new operator each
\* time it is applied to a source: two observables built from the same factory
\* share neither counter nor forwarding target: a notification of one is
\* delivered to the consumer of that one only and changes the state of its own
\* operator only.
C36_FactoryMakesNewInstance ==
    /\ [](/\ \A a, b \in Built : a # b => made.observables[a] # made.observables[b]
          /\ \A a \in Built :
                /\ OperatorOf(a).count = ValuesOfSub(a)
                /\ OperatorOf(a).observer = IF up[a] = "idle" THEN None ELSE a
          /\ \A i \in 1..Len(trace) :
                trace[i].ev = "deliver" => trace[i].sub = OriginOf(i))
    /\ [][\A a \in Built :
            ReceivedOf(a)' = ReceivedOf(a) /\ up'[a] = up[a]
                => OperatorOf(a)' = OperatorOf(a)]_vars

\* C36 witness: two observables of the one factory, both subscribed; the first
\* received two values, the second one: the counts are 2 and 1, and each
\* consumer was sent the values of its own observable.
C36_Witness ==
    /\ Len(made.observables) = 2
    /\ up[1] = "active" /\ up[2] = "active"
    /\ OperatorOf(1).count = 2 /\ OperatorOf(2).count = 1
    /\ Len(Delivered(1)) = 2 /\ Len(Delivered(2)) = 1
    /\ trace[1].sub = 1 /\ trace[Len(trace)].sub = 1

\* what a step appended to the trace
Appended == SubSeq(trace', Len(trace) + 1, Len(trace'))

Handled == Len(Received') > Len(Received)

\* C37: two-phase lifecycle: an operator has no forwarding target from its
\* construction until its first subscribe.  While it has none, the inherited
\* BaseOperator on_error and on_completed do nothing and do not fail (and
\* StatefulOperator still calls reset_state), the handlers of the six logging
\* operators fail instead of forwarding, and nothing is delivered to any
\* consumer.
C37_TwoPhaseLifecycle ==
    /\ observer = None
    /\ [](observer = None => \A c \in Subs : Delivered(c) = <<>>)
    /\ [][/\ observer' # observer =>
                \E s \in Subs : up[s] = "idle" /\ up'[s] = "active" /\ observer' = s
          /\ observer = None /\ Handled =>
                /\ \A i \in 1..Len(Appended) :
                      Appended[i].ev \notin {"deliver", "final"}
                /\ kind \in Kinds => Raised(Appended)
                /\ kind \in BasisKinds /\ IsTerminal(LastOf(Received')) =>
                      Len(Appended) = 1
                /\ kind = "StatefulOperator" /\ IsTerminal(LastOf(Received')) =>
                      /\ Appended = <<LastOf(Received'), Reset>>
                      /\ count' = 0]_vars

\* C37 witness: a StatefulOperator that was never subscribed through counted
\* a value and then handled a completion: nothing was delivered, nothing
\* failed, and reset_state ran.
C37_Witness ==
    /\ kind = "StatefulOperator" /\ observer = None /\ count = 0
    /\ Len(trace) = 3
    /\ trace[1].ev = "recv" /\ trace[1].note = "next"
    /\ trace[2].ev = "recv" /\ trace[2].note = "completed"
    /\ trace[3] = Reset

\* C38: if the downstream observer's on_next raises while SimpleOperator or
\* FilteringOperator is forwarding a value to it, the operator catches the
\* exception and delivers it to the same observer as an error notification;
\* the exception does not reach the upstream, which keeps delivering.
C38_DownstreamFailureCaught ==
    /\ [](\A i \in 1..Len(trace) : trace[i].ev = "thrown" =>
            /\ trace[i - 1].ev = "deliver" /\ trace[i - 1].note = "next"
            /\ i < Len(trace)
            /\ trace[i + 1] = Deliver(trace[i - 1].sub, "error", NoValue,
                                      trace[i].exc))
    /\ [][Handled /\ (\E i \in 1..Len(Appended) : Appended[i].ev = "thrown") =>
            /\ ~Raised(Appended)
            /\ up' = up
            /\ up'[LastOf(Received').sub] = "active"]_vars

\* C38 witness: the consumer's on_next raised on the first value; it was sent
\* the exception as an error, and the upstream then delivered a second value,
\* which was forwarded as well.
C38_Witness ==
    /\ Len(trace) = 6
    /\ trace[1].ev = "recv" /\ trace[2].ev = "deliver" /\ trace[2].note = "next"
    /\ trace[3] = Thrown(ConsumerError)
    /\ trace[4] = Deliver(1, "error", NoValue, ConsumerError)
    /\ trace[5].ev = "recv" /\ trace[5].sub = 1 /\ trace[5].note = "next"
    /\ trace[6].ev = "deliver" /\ trace[6].note = "next"

\* C39: the closure-based debug operator calls its logger function exactly
\* once per notification and then forwards the notification unchanged to the
\* subscriber; with print_value off the value is not in the record; it keeps
\* no state across subscriptions: each subscription forwards to its own
\* observer only.
C39_DebugForwardsToOwnObserver ==
    /\ Len(trace) = 3 * Len(Received)
    /\ \A i \in 1..Len(trace) : trace[i].ev = "recv" =>
          /\ trace[i + 1].ev = "log"
          /\ trace[i + 1].what = "on_" \o trace[i].note
          /\ trace[i].note = "next" =>
                trace[i + 1].text = IF cfg.print_value THEN PyStr(trace[i].val)
                                                       ELSE <<>>
          /\ trace[i + 2] = Deliver(trace[i].sub, trace[i].note, trace[i].val,
                                    trace[i].err)
    /\ observer = None
    /\ fields = <<0, 0, 0, 0, <<>>, None, None, <<>> >>

\* C39 witness: print_value off, two subscriptions running at once: the first
\* delivered a value, then the second, then the first completed: consumer 1
\* was sent the first value and the completion, consumer 2 the second value,
\* and the records show no value.
C39_Witness ==
    /\ ~cfg.print_value /\ up[1] = "done" /\ up[2] = "active"
    /\ Len(trace) = 9
    /\ trace[1].sub = 1 /\ trace[4].sub = 2 /\ trace[7].sub = 1
    /\ trace[1].note = "next" /\ trace[4].note = "next"
    /\ trace[7].note = "completed"
    /\ trace[2].text = <<>> /\ trace[5].text = <<>>
    /\ Len(Delivered(1)) = 2 /\ Len(Delivered(2)) = 1

====
